---------------------------- MODULE Spec2Model ----------------------------
(***************************************************************************)
(* LifeSynced: calendar synchronisation (POST /api/sync), the events read  *)
(* path (GET /api/events), the personal-reveal gate and the overlap        *)
(* detection of the calendar page.                                         *)
(*                                                                         *)
(* Conventions.  A JavaScript string is a sequence of one-character        *)
(* strings, so that split, replace, includes and the regular expressions   *)
(* are computed character by character.  An instant (a JavaScript Date or  *)
(* an ICAL.Time) is its number of whole seconds since the Unix epoch:      *)
(* iCalendar times carry no milliseconds.  A nullable value T | null is    *)
(* the value or a sentinel (NoDate, NoDuration); a nullable record is a    *)
(* sequence of length 0 or 1.                                              *)
(***************************************************************************)
EXTENDS Integers, Sequences, FiniteSets, TLC

VARIABLES
    \* ---- one expansion experiment (expandEvent called on one definition)
    event,          \* the ICAL.Event handed to expandEvent
    source,         \* 'ics' | 'apple_calendar'
    syncNow,        \* the instant syncIcsCalendar computed its range from
    runs,           \* the results of the calls of expandEvent made so far
    \* ---- the store (Supabase tables)
    appointments,       \* set of rows, primary key id
    ignored_base_ids,   \* set of rows, primary key base_id
    ignored_event_ids,  \* set of rows, primary key event_id
    \* ---- server environment and the browser's cookie jar
    PERSONAL_REVEAL_PASSWORD,
    revealCookie,
    \* ---- the calendar page (React state of Home)
    events,
    ignoredBaseIds,
    ignoredEventIds,
    detectOverlap,
    personalRevealed,
    \* ---- what GET /api/events read, computed and answered last; NoResponse
    \*      before the first answer and once an ignore table or the browser's
    \*      cookie has changed since
    lastGet,
    \* ---- history: the correct reveal password was posted and the reveal
    \*      has not been cleared or expired since
    passwordSupplied,
    \* ---- one sync pass (POST /api/sync)
    feeds,              \* the configured feeds, in the order POST syncs them,
                        \* each with what its URL serves
    supabaseConfigured, \* NEXT_PUBLIC_SUPABASE_URL and SUPABASE_SERVICE_ROLE_KEY set
    sync_metadata,      \* the row 'default' of the table sync_metadata
    results,            \* results: SyncResult[] of the POST under way
    syncResponse,       \* <<>> until POST answers, then <<the answer>>
    \* ---- history of the pass: per feed synced, the dedupedEvents it built
    \*      (<<>> when it built none); per category, the instant of the last
    \*      sync that went through without a feed-level failure
    batches,
    lastSuccess,
    \* ---- the week view of the calendar page
    timezone,           \* the selected time zone
    hourCycle,          \* how the browser's Intl formats midnight with hour12: false
    dayEvents,          \* the argument of the last call of calculateEventLayout
    layout,             \* and the Map it returned
    \* ---- the view of the calendar page and its requests in flight
    viewMode,           \* 'day' | 'week' | '4week'
    pendingViewMode,    \* "" for null
    showRevealModal,
    canRevealPersonal,
    statusCheck,        \* the GET /api/personal-reveal of checkPersonalRevealStatus
    revealSubmit,       \* the POST /api/personal-reveal of handleRevealSubmit
    hideRequest,        \* the DELETE /api/personal-reveal of handleHidePersonal
    \* ---- the application password gate
    APP_PASSWORD,
    authCookie,         \* the browser's cookie lifesynced_auth ("" for none)
    routed,             \* the last request the middleware or /api/auth answered
    \* ---- base-id recovery on one id string
    occurrenceId,       \* an id string
    recovered,          \* <<>>, then <<what the server and the page recovered>>
    \* ---- the store over several sync passes
    clock,              \* the last reading of the server's clock
    lastPass,           \* <<>>, then <<the last pass of syncIcsCalendar>>
    \* ---- history: the last ignore an HTTP client other than the page added
    \*      through the routes, the ignore tables before it, and whether it
    \*      has been removed since; <<>> once the tables changed otherwise
    ignoreTrail

expandVars == <<event, source, syncNow, runs>>
syncVars   == <<feeds, supabaseConfigured, sync_metadata, results, syncResponse, batches,
                lastSuccess>>
layoutVars == <<timezone, hourCycle, dayEvents, layout>>
storeVars  == <<appointments, ignored_base_ids, ignored_event_ids>>
pageVars   == <<events, ignoredBaseIds, ignoredEventIds, detectOverlap, personalRevealed>>
readVars   == <<storeVars, PERSONAL_REVEAL_PASSWORD, revealCookie, pageVars, lastGet,
                passwordSupplied>>
viewVars   == <<viewMode, pendingViewMode, showRevealModal, canRevealPersonal, statusCheck,
                revealSubmit, hideRequest>>
authVars   == <<APP_PASSWORD, authCookie, routed>>
recoveryVars == <<occurrenceId, recovered>>
passVars   == <<clock, lastPass>>
moreVars   == <<viewVars, authVars, recoveryVars, passVars>>
vars       == <<expandVars, readVars, syncVars, layoutVars, moreVars, ignoreTrail>>

-----------------------------------------------------------------------------
(* Strings *)

Digits == <<"0","1","2","3","4","5","6","7","8","9">>
UpperChars == <<"A","B","C","D","E","F","G","H","I","J","K","L","M","N","O","P","Q","R","S","T","U","V","W","X","Y","Z">>
LowerChars == <<"a","b","c","d","e","f","g","h","i","j","k","l","m","n","o","p","q","r","s","t","u","v","w","x","y","z">>

IsDigit(c) == \E i \in 1..10 : Digits[i] = c

\* String.prototype.toLowerCase
toLowerCase(s) ==
    [i \in 1..Len(s) |->
        IF \E k \in 1..26 : UpperChars[k] = s[i]
        THEN LowerChars[CHOOSE k \in 1..26 : UpperChars[k] = s[i]]
        ELSE s[i]]

\* String.prototype.includes
includes(s, sub) ==
    \E i \in 0..(Len(s) - Len(sub)) : SubSeq(s, i + 1, i + Len(sub)) = sub

\* String.prototype.split(sep)[...]: the parts between the separators
RECURSIVE split(_, _)
split(s, sep) ==
    IF \A i \in 1..Len(s) : s[i] # sep
    THEN <<s>>
    ELSE LET i == CHOOSE j \in 1..Len(s) :
                      s[j] = sep /\ \A k \in 1..(j - 1) : s[k] # sep
         IN  <<SubSeq(s, 1, i - 1)>> \o split(SubSeq(s, i + 1, Len(s)), sep)

\* Array.prototype.join(sep)
RECURSIVE join(_, _)
join(parts, sep) ==
    IF Len(parts) = 0 THEN <<>>
    ELSE IF Len(parts) = 1 THEN parts[1]
    ELSE parts[1] \o <<sep>> \o join(Tail(parts), sep)

\* n written with exactly w decimal digits
Pad(n, w) == [i \in 1..w |-> Digits[((n \div (10 ^ (w - i))) % 10) + 1]]

\* Number -> string, for a non-negative integer
RECURSIVE Decimal(_)
Decimal(n) == IF n < 10 THEN <<Digits[n + 1]>>
              ELSE Decimal(n \div 10) \o <<Digits[(n % 10) + 1]>>

-----------------------------------------------------------------------------
(* Dates *)

\* The civil date of a day number (days since 1970-01-01), proleptic Gregorian
CivilFromDays(days) ==
    LET z   == days + 719468
        era == z \div 146097
        doe == z - era * 146097
        yoe == (doe - (doe \div 1460) + (doe \div 36524) - (doe \div 146096)) \div 365
        doy == doe - (365 * yoe + (yoe \div 4) - (yoe \div 100))
        mp  == (5 * doy + 2) \div 153
        d   == doy - ((153 * mp + 2) \div 5) + 1
        m   == IF mp < 10 THEN mp + 3 ELSE mp - 9
        y   == yoe + era * 400 + (IF m <= 2 THEN 1 ELSE 0)
    IN  [year |-> y, month |-> m, day |-> d]

\* Date.prototype.toISOString: YYYY-MM-DDTHH:MM:SS.000Z
toISOString(t) ==
    LET c   == CivilFromDays(t \div 86400)
        sod == t % 86400
    IN  Pad(c.year, 4) \o <<"-">> \o Pad(c.month, 2) \o <<"-">> \o Pad(c.day, 2)
        \o <<"T">> \o Pad(sod \div 3600, 2) \o <<":">> \o Pad((sod % 3600) \div 60, 2)
        \o <<":">> \o Pad(sod % 60, 2) \o <<".", "0", "0", "0", "Z">>

\* startDate.toISOString().replace(/[-:]/g, '').split('.')[0]
dateStr(startDate) ==
    split(SelectSeq(toISOString(startDate), LAMBDA c : c \notin {"-", ":"}), ".")[1]

-----------------------------------------------------------------------------
(* ICAL.Event as expandEvent reads it (types/ical.js.d.ts).                 *)
(* An event is a record                                                     *)
(*   uid, summary, description, location, organizer : strings (<<>> when    *)
(*       the property is missing),                                          *)
(*   startDate, endDate : an instant or NoDate,  isDate : all-day flag,     *)
(*   duration : seconds or NoDuration,                                      *)
(*   recurring : isRecurring(),                                             *)
(*   interval, count, throwAt : the recurrence iterator: its k-th call of   *)
(*       next() returns startDate + (k-1)*interval while k <= count (or     *)
(*       for ever when count = Unbounded), then null; call number throwAt   *)
(*       throws (NeverThrows: no call does).                                *)

NoDate == -1
NoDuration == -1
Unbounded == -1
NeverThrows == 0

\* RecurExpansion.next(): does call number k throw?  Without a start there
\* is nothing to iterate from: event.iterator() itself throws.
IteratorThrows(ev, k) == ev.startDate = NoDate \/ ev.throwAt = k

\* RecurExpansion.next(): the value of call number k (NoDate for null)
IteratorNext(ev, k) ==
    IF ev.count = Unbounded \/ k <= ev.count
    THEN ev.startDate + (k - 1) * ev.interval
    ELSE NoDate

STATUS_WORDS ==
    << <<"[","F","r","e","e","]">>,
       <<"[","B","u","s","y","]">>,
       <<"[","T","e","n","t","a","t","i","v","e","]">>,
       <<"[","O","u","t"," ","o","f"," ","O","f","f","i","c","e","]">>,
       <<"[","W","o","r","k","i","n","g"," ","E","l","s","e","w","h","e","r","e","]">> >>

maxIterations == 500

\* createEventRecord(event, startDate, source); now is the clock reading of
\* Date.now() and new Date() (one reading for the whole call of expandEvent).
\* The result is <<>> for null and <<record>> otherwise.
createEventRecord(ev, startDate, src, now) ==
    IF startDate = NoDate THEN <<>>
    ELSE
    LET uid == IF ev.uid # <<>> THEN ev.uid
               ELSE <<"u","n","k","n","o","w","n","_">> \o Decimal(now) \o <<"0","0","0">>
        endDate ==
            IF ev.duration # NoDuration THEN startDate + ev.duration
            ELSE IF ev.endDate # NoDate
                 THEN IF ev.startDate # NoDate /\ ev.endDate # NoDate
                      THEN startDate + (ev.endDate - ev.startDate)
                      ELSE startDate + 60 * 60
                 ELSE startDate + 60 * 60
        eventId == uid \o <<"_">> \o dateStr(startDate)
        isAllDay == ev.startDate # NoDate /\ ev.isDate
    IN  << [ id              |-> eventId,
             subject         |-> IF ev.summary # <<>> THEN ev.summary
                                 ELSE <<"N","o"," ","T","i","t","l","e">>,
             start_time      |-> startDate,
             end_time        |-> endDate,
             location        |-> ev.location,
             organizer_email |-> ev.organizer,
             organizer_name  |-> <<>>,
             attendees       |-> <<>>,
             body_preview    |-> ev.description,
             is_all_day      |-> isAllDay,
             source          |-> src,
             updated_at      |-> now ] >>

\* (a loop that ends at a candidate before the window)
LoopStep_EndsBeforeWindow(ev, rangeStart, rangeEnd, src, now, st, count) ==
    IF st.how # "running" THEN st
    ELSE IF IteratorThrows(ev, count + 1) THEN [how |-> "throw", results |-> st.results]
    ELSE
    LET next == IteratorNext(ev, count + 1) IN
    IF ~(next # NoDate /\ count < maxIterations) THEN [how |-> "done", results |-> st.results]
    ELSE IF next > rangeEnd \/ next < rangeStart THEN [how |-> "done", results |-> st.results]
    ELSE [ how |-> "running",
           results |-> st.results \o createEventRecord(ev, next, src, now) ]

\* One pass through the head and the body of the while loop of expandEvent,
\* from the state st = [how, results] with `count` iterations done; `next`
\* is the value of call number count + 1 of iterator.next().  how is
\* "running" while the loop goes on, "done" once its condition or the break
\* ended it, "throw" once iterator.next() threw.
LoopStep(ev, rangeStart, rangeEnd, src, now, st, count) ==
    IF st.how # "running" THEN st
    ELSE IF IteratorThrows(ev, count + 1) THEN [how |-> "throw", results |-> st.results]
    ELSE
    LET next == IteratorNext(ev, count + 1) IN
    IF ~(next # NoDate /\ count < maxIterations) THEN [how |-> "done", results |-> st.results]
    ELSE IF next > rangeEnd THEN [how |-> "done", results |-> st.results]
    ELSE [ how |-> "running",
           results |-> IF next >= rangeStart
                       THEN st.results \o createEventRecord(ev, next, src, now)
                       ELSE st.results ]

\* The passes count = lo, lo + 1, ..., hi made one after the other from st.
\* (The range is halved and the state after the first half is bound as an
\* element of a singleton set only to keep the model checker's evaluation
\* shallow; the value is that of running the passes in order.)
RECURSIVE LoopSteps(_, _, _, _, _, _, _, _)
LoopSteps(ev, rangeStart, rangeEnd, src, now, st, lo, hi) ==
    IF st.how # "running" THEN st
    ELSE IF lo = hi THEN LoopStep(ev, rangeStart, rangeEnd, src, now, st, lo)
    ELSE LET mid == (lo + hi) \div 2 IN
         CHOOSE r \in
             { LoopSteps(ev, rangeStart, rangeEnd, src, now, half, mid + 1, hi) :
                 half \in {LoopSteps(ev, rangeStart, rangeEnd, src, now, st, lo, mid)} } :
             TRUE

\* The try block of expandEvent: the loop runs until it ends, which it has
\* done at the latest when count = maxIterations
ExpandLoop(ev, rangeStart, rangeEnd, src, now) ==
    LoopSteps(ev, rangeStart, rangeEnd, src, now,
              [how |-> "running", results |-> <<>>], 0, maxIterations)

\* (a placeholder filter that does not look at the source)
IsSkippedStatusEvent_AnySource(ev, src) ==
    /\ \E i \in 1..Len(STATUS_WORDS) :
           includes(toLowerCase(ev.summary), toLowerCase(STATUS_WORDS[i]))
    /\ ev.startDate # NoDate /\ ev.endDate # NoDate
    /\ (ev.endDate - ev.startDate) >= 24 * 60 * 60

\* The free/busy placeholder filter at the head of expandEvent
IsSkippedStatusEvent(ev, src) ==
    /\ src = "ics"
    /\ \E i \in 1..Len(STATUS_WORDS) :
           includes(toLowerCase(ev.summary), toLowerCase(STATUS_WORDS[i]))
    /\ ev.startDate # NoDate /\ ev.endDate # NoDate
    /\ (ev.endDate - ev.startDate) >= 24 * 60 * 60

expandEvent(ev, rangeStart, rangeEnd, src, now) ==
    IF IsSkippedStatusEvent(ev, src) THEN <<>>
    ELSE IF ev.recurring
    THEN LET r == ExpandLoop(ev, rangeStart, rangeEnd, src, now) IN
         IF r.how = "throw"
         THEN r.results \o createEventRecord(ev, ev.startDate, src, now)
         ELSE r.results
    ELSE IF ev.startDate # NoDate /\ ev.startDate >= rangeStart /\ ev.startDate <= rangeEnd
         THEN createEventRecord(ev, ev.startDate, src, now)
         ELSE <<>>

\* syncIcsCalendar: past 7 days to 90 days ahead of the instant of the sync
RangeStart(now) == now - 7 * 86400
RangeEnd(now) == now + 90 * 86400

-----------------------------------------------------------------------------
(* Base-id recovery *)

\* /^\d{8}(T\d{6})?$/
IsTimestampServer(p) ==
    \/ Len(p) = 8 /\ \A i \in 1..8 : IsDigit(p[i])
    \/ /\ Len(p) = 15
       /\ \A i \in 1..8 : IsDigit(p[i])
       /\ p[9] = "T"
       /\ \A i \in 10..15 : IsDigit(p[i])

\* /^\d{8}T\d{6}$/ with lastPart.length === 15
IsTimestampPage(p) ==
    /\ Len(p) = 15
    /\ \A i \in 1..8 : IsDigit(p[i])
    /\ p[9] = "T"
    /\ \A i \in 10..15 : IsDigit(p[i])

\* (base-id recovery that keeps the first part, parts[0], alone)
getBaseIdFromEventId_FirstPart(eventId) ==
    LET parts == split(eventId, "_") IN
    IF Len(parts) <= 1 THEN eventId
    ELSE IF IsTimestampServer(parts[Len(parts)])
         THEN parts[1]
         ELSE eventId

\* app/api/events/route.ts
getBaseIdFromEventId(eventId) ==
    LET parts == split(eventId, "_") IN
    IF Len(parts) <= 1 THEN eventId
    ELSE IF IsTimestampServer(parts[Len(parts)])
         THEN join(SubSeq(parts, 1, Len(parts) - 1), "_")
         ELSE eventId

\* app/page.tsx
pageGetBaseIdFromEventId(eventId) ==
    IF \E i \in 1..Len(eventId) : eventId[i] = "_"
    THEN LET parts == split(eventId, "_") IN
         IF IsTimestampPage(parts[Len(parts)])
         THEN join(SubSeq(parts, 1, Len(parts) - 1), "_")
         ELSE eventId
    ELSE eventId

\* app/page.tsx
isEventRecurring(eventId) ==
    IF \E i \in 1..Len(eventId) : eventId[i] = "_"
    THEN IsTimestampPage(split(eventId, "_")[Len(split(eventId, "_"))])
    ELSE FALSE

-----------------------------------------------------------------------------
(* The parts of the state an experiment leaves alone *)

\* No sync pass under way: no feed configured, the metadata row as the
\* schema inserts it
NoSync ==
    /\ feeds = <<>>
    /\ supabaseConfigured = TRUE
    /\ sync_metadata = [last_ics_sync |-> NoDate, last_apple_sync |-> NoDate,
                        updated_at |-> NoDate]
    /\ results = <<>>
    /\ syncResponse = <<>>
    /\ batches = <<>>
    /\ lastSuccess = [ics |-> NoDate, apple_calendar |-> NoDate]

\* The week view not rendered yet; the page's default time zone
NoLayout ==
    /\ timezone = "America/Los_Angeles"
    /\ hourCycle = "h23"
    /\ dayEvents = <<>>
    /\ layout = <<>>

\* The page's view at its defaults, no request of it in flight
NoView ==
    /\ viewMode = "week"
    /\ pendingViewMode = ""
    /\ showRevealModal = FALSE
    /\ canRevealPersonal = TRUE
    /\ statusCheck = "none"
    /\ revealSubmit = <<>>
    /\ hideRequest = <<>>

\* No application password, no request routed yet
NoAuth ==
    /\ APP_PASSWORD = ""
    /\ authCookie = <<>>
    /\ routed = <<>>

NoRecovery ==
    /\ occurrenceId = <<>>
    /\ recovered = <<>>

\* No sync pass made yet: the clock at the instant of the sync
NoPass ==
    /\ clock = syncNow
    /\ lastPass = <<>>

NoMore ==
    /\ NoView
    /\ NoAuth
    /\ NoRecovery
    /\ NoPass
    /\ ignoreTrail = <<>>

-----------------------------------------------------------------------------
(* Expansion experiments: one definition, one sync window, expandEvent      *)
(* called on it up to MaxRuns times at successive clock readings.           *)

MaxRuns == 2
MaxClockSteps == 1

\* 2025-01-01T12:00:00Z
SyncTimes == {1735732800}

\* The clock readings a call of expandEvent can see: the sync instant or later
ClockReadings(now) == {now + 60 * k : k \in 0..MaxClockSteps}

Sources == {"ics", "apple_calendar"}

ExpandUids ==
    { <<>>,
      <<"a">>,
      <<"a","_","b">>,
      <<"a","_","2","0","2","4","0","1","0","1">>,
      <<"a","_","2","0","2","4","0","1","0","1","T","0","0","0","0","0","0">> }

ExpandSummaries ==
    { <<>>,
      <<"S","t","a","n","d","u","p">>,
      <<"[","b","u","s","y","]"," ","o","f","f","s","i","t","e">> }

\* Nominal starts: none, 400 days before the sync, a day before the window,
\* the two ends of the window, inside it, after it
ExpandStarts(now) ==
    {NoDate, now - 400 * 86400, RangeStart(now) - 86400, RangeStart(now), now + 3600,
     RangeEnd(now), now + 100 * 86400}

\* Iterators (recurring, interval, count, throwAt)
NotRecurring == [recurring |-> FALSE, interval |-> 0, count |-> 0, throwAt |-> NeverThrows]

LightRules ==
    { NotRecurring,
      [recurring |-> TRUE, interval |-> 86400, count |-> 3, throwAt |-> NeverThrows],
      [recurring |-> TRUE, interval |-> 0, count |-> 2, throwAt |-> NeverThrows],
      [recurring |-> TRUE, interval |-> 7 * 86400, count |-> Unbounded, throwAt |-> NeverThrows],
      [recurring |-> TRUE, interval |-> 86400, count |-> 3, throwAt |-> 1],
      [recurring |-> TRUE, interval |-> 86400, count |-> 3, throwAt |-> 3] }

\* Long series: hourly for ever, with and without a failure of the iterator
\* right after the last iteration the cap allows
LongRules ==
    { [recurring |-> TRUE, interval |-> 3600, count |-> Unbounded, throwAt |-> NeverThrows],
      [recurring |-> TRUE, interval |-> 3600, count |-> Unbounded, throwAt |-> maxIterations + 1],
      [recurring |-> TRUE, interval |-> 3600, count |-> maxIterations, throwAt |-> NeverThrows] }

MakeEvent(uid, summary, start, endOffset, duration, isDate, rule) ==
    [ uid |-> uid, summary |-> summary, description |-> <<>>,
      location |-> <<"R","1">>, organizer |-> <<>>,
      startDate |-> start,
      endDate |-> IF start = NoDate \/ endOffset = NoDate THEN NoDate ELSE start + endOffset,
      duration |-> duration, isDate |-> isDate,
      recurring |-> rule.recurring, interval |-> rule.interval,
      count |-> rule.count, throwAt |-> rule.throwAt ]

Standup == <<"S","t","a","n","d","u","p">>

ExpandEvents(now) ==
    \* identities: every uid, single and recurring
    { MakeEvent(uid, Standup, start, 1800, NoDuration, FALSE, rule) :
        uid \in ExpandUids, start \in {RangeStart(now), now + 3600, RangeEnd(now)},
        rule \in {NotRecurring, [recurring |-> TRUE, interval |-> 86400, count |-> 3,
                                 throwAt |-> NeverThrows]} }
    \cup
    \* the window and the iterators
    { MakeEvent(<<"a">>, Standup, start, endOffset, duration, FALSE, rule) :
        start \in ExpandStarts(now), endOffset \in {NoDate, 1800},
        duration \in {NoDuration, 900}, rule \in LightRules }
    \cup
    \* the free/busy placeholder filter
    { MakeEvent(<<"a">>, summary, now + 3600, endOffset, NoDuration, isDate, rule) :
        summary \in ExpandSummaries, endOffset \in {1800, 86400}, isDate \in BOOLEAN,
        rule \in {NotRecurring, [recurring |-> TRUE, interval |-> 86400, count |-> 3,
                                 throwAt |-> NeverThrows]} }
    \cup
    \* long series
    { MakeEvent(uid, Standup, start, 1800, NoDuration, FALSE, rule) :
        uid \in {<<>>, <<"a","_","b">>}, start \in {now - 600 * 86400, now + 3600},
        rule \in LongRules }

ExpandInit ==
    /\ syncNow \in SyncTimes
    /\ event \in ExpandEvents(syncNow)
    /\ source \in Sources
    /\ runs = <<>>
    /\ appointments = {}
    /\ ignored_base_ids = {}
    /\ ignored_event_ids = {}
    /\ PERSONAL_REVEAL_PASSWORD = ""
    /\ revealCookie = ""
    /\ events = <<>>
    /\ ignoredBaseIds = {}
    /\ ignoredEventIds = {}
    /\ detectOverlap = FALSE
    /\ personalRevealed = FALSE
    /\ lastGet = <<>>
    /\ passwordSupplied = FALSE
    /\ NoSync
    /\ NoLayout
    /\ NoMore

\* One call expandEvent(event, rangeStart, rangeEnd, source) made by
\* syncIcsCalendar; the clock does not run backwards between calls.
ExpandEvent ==
    /\ Len(runs) < MaxRuns
    /\ \E now \in ClockReadings(syncNow) :
          /\ \A i \in 1..Len(runs) : runs[i].now <= now
          /\ runs' = Append(runs,
                 [ now |-> now,
                   results |-> expandEvent(event, RangeStart(syncNow), RangeEnd(syncNow),
                                           source, now) ])
    /\ UNCHANGED <<event, source, syncNow, readVars, syncVars, layoutVars, moreVars,
                   ignoreTrail>>

ExpandNext == ExpandEvent

SpecExpand == ExpandInit /\ [][ExpandNext]_vars

-----------------------------------------------------------------------------
(* Properties of the expansion (checked under SpecExpand) *)

\* An occurrence record without its last-updated timestamp
WithoutUpdatedAt(r) ==
    [ id |-> r.id, subject |-> r.subject, start_time |-> r.start_time,
      end_time |-> r.end_time, location |-> r.location,
      organizer_email |-> r.organizer_email, organizer_name |-> r.organizer_name,
      attendees |-> r.attendees, body_preview |-> r.body_preview,
      is_all_day |-> r.is_all_day, source |-> r.source ]

SameButUpdatedAt(a, b) ==
    /\ Len(a) = Len(b)
    /\ \A k \in 1..Len(a) : WithoutUpdatedAt(a[k]) = WithoutUpdatedAt(b[k])

\* C1: expanding the same definition against the same window twice yields
\* occurrences with identical ids and identical field values, the
\* last-updated timestamp excepted, for every definition a feed can contain,
\* one without a UID included.
C1_IdempotentIdentity ==
    \A i, j \in 1..Len(runs) : SameButUpdatedAt(runs[i].results, runs[j].results)

\* (C1, the part the code keeps: the same holds of every definition that
\* carries a UID.)
C1_IdempotentIdentityWithUid ==
    event.uid # <<>> =>
        \A i, j \in 1..Len(runs) : SameButUpdatedAt(runs[i].results, runs[j].results)

\* C2: for any recurring definition and any window, expandEvent emits at
\* most 500 occurrences.
C2_AtMost500 ==
    \A i \in 1..Len(runs) : event.recurring => Len(runs[i].results) <= maxIterations

\* C3: no occurrence emitted by expandEvent has a start outside
\* [rangeStart, rangeEnd], on every path: non-recurring, recurring, and
\* recurring with a rule iteration that throws and falls back to the nominal
\* start.
C3_StartsWithinWindow ==
    \A i \in 1..Len(runs) : \A k \in 1..Len(runs[i].results) :
        /\ runs[i].results[k].start_time >= RangeStart(syncNow)
        /\ runs[i].results[k].start_time <= RangeEnd(syncNow)

\* C4: for every series UID (with underscores, or ending in a
\* timestamp-like segment) and every start instant, base-id recovery, the
\* server's and the page's, applied to the id createEventRecord built as
\* uid + '_' + YYYYMMDDTHHMMSS returns exactly the UID.
C4_BaseIdRoundTrip ==
    event.uid # <<>> =>
        \A i \in 1..Len(runs) : \A k \in 1..Len(runs[i].results) :
            /\ runs[i].results[k].id = event.uid \o <<"_">> \o dateStr(runs[i].results[k].start_time)
            /\ getBaseIdFromEventId(runs[i].results[k].id) = event.uid
            /\ pageGetBaseIdFromEventId(runs[i].results[k].id) = event.uid

\* C4 witness: an occurrence was emitted for a series whose UID contains an
\* underscore and ends in a timestamp-like segment.
C4_Witness ==
    /\ event.uid = <<"a","_","2","0","2","4","0","1","0","1","T","0","0","0","0","0","0">>
    /\ event.recurring
    /\ Len(runs) >= 1
    /\ Len(runs[1].results) >= 2

\* C5: for a non-recurring definition the occurrence id equals the UID with
\* no timestamp suffix, so the page does not classify the event as part of
\* a recurring series.
C5_SingleIdIsUid ==
    (~event.recurring /\ event.uid # <<>>) =>
        \A i \in 1..Len(runs) : \A k \in 1..Len(runs[i].results) :
            /\ runs[i].results[k].id = event.uid
            /\ getBaseIdFromEventId(runs[i].results[k].id) = runs[i].results[k].id
            /\ ~isEventRecurring(runs[i].results[k].id)

-----------------------------------------------------------------------------
(* One sync pass of a feed (syncIcsCalendar) into the appointments table    *)

\* eventsToUpsert: the records of every VEVENT of the feed, in feed order
RECURSIVE EventsToUpsert(_, _, _)
EventsToUpsert(vevents, src, now) ==
    IF vevents = <<>> THEN <<>>
    ELSE expandEvent(Head(vevents), RangeStart(now), RangeEnd(now), src, now)
         \o EventsToUpsert(Tail(vevents), src, now)

\* (a Map that keeps the value of a key's first insertion)
DedupedEvents_KeepsFirst(eventsToUpsert) ==
    LET n == Len(eventsToUpsert)
        firsts == SelectSeq([i \in 1..n |-> i],
                      LAMBDA i : /\ eventsToUpsert[i].id # <<>>
                                 /\ \A j \in 1..(i - 1) : eventsToUpsert[j].id # eventsToUpsert[i].id)
    IN  [m \in 1..Len(firsts) |-> eventsToUpsert[firsts[m]]]

\* Array.from(uniqueEvents.values()): a Map keeps a key at the position of
\* its first insertion and the value of its last
DedupedEvents(eventsToUpsert) ==
    LET n == Len(eventsToUpsert)
        firsts == SelectSeq([i \in 1..n |-> i],
                      LAMBDA i : /\ eventsToUpsert[i].id # <<>>
                                 /\ \A j \in 1..(i - 1) : eventsToUpsert[j].id # eventsToUpsert[i].id)
        last(i) == CHOOSE j \in 1..n :
                      /\ eventsToUpsert[j].id = eventsToUpsert[i].id
                      /\ \A k \in (j + 1)..n : eventsToUpsert[k].id # eventsToUpsert[i].id
    IN  [m \in 1..Len(firsts) |-> eventsToUpsert[last(firsts[m])]]

\* (an upsert that first deletes the stored rows of the records' source)
UpsertAppointments_ReplacesSource(table, dedupedEvents) ==
    { r \in table : \A k \in 1..Len(dedupedEvents) : dedupedEvents[k].source # r.source }
    \cup { dedupedEvents[k] : k \in 1..Len(dedupedEvents) }

\* supabase.from('appointments').upsert(dedupedEvents, { onConflict: 'id' })
UpsertAppointments(table, dedupedEvents) ==
    { r \in table : \A k \in 1..Len(dedupedEvents) : dedupedEvents[k].id # r.id }
    \cup { dedupedEvents[k] : k \in 1..Len(dedupedEvents) }

\* The appointments table after syncIcsCalendar fetched, parsed and stored
\* the feed without an error
syncIcsCalendar(table, vevents, src, now) ==
    LET eventsToUpsert == EventsToUpsert(vevents, src, now)
    IN  IF Len(eventsToUpsert) > 0
        THEN UpsertAppointments(table, DedupedEvents(eventsToUpsert))
        ELSE table

-----------------------------------------------------------------------------
(* GET /api/events *)

PersonalPlaceholder ==
    <<"[","P","e","r","s","o","n","a","l"," ","E","v","e","n","t","]">>

NoTitle == <<"N","o"," ","T","i","t","l","e">>

\* parseInt(s, 10) of a string without a sign: the value of its leading
\* digits, NaN when it has none
NaN == -1

DigitValue(c) == CHOOSE d \in 0..9 : Digits[d + 1] = c

RECURSIVE ParseDigits(_, _)
ParseDigits(s, acc) ==
    IF s = <<>> \/ ~IsDigit(Head(s)) THEN acc
    ELSE ParseDigits(Tail(s), 10 * acc + DigitValue(Head(s)))

parseInt(s) == IF s = <<>> \/ ~IsDigit(Head(s)) THEN NaN ELSE ParseDigits(s, 0)

\* Date.UTC(year, month, date, 0, 0, 0, 0) of an instant
StartOfUtcDay(now) == now - (now % 86400)

\* .order('start_time', { ascending: true })
RECURSIVE OrderByStartTime(_)
OrderByStartTime(rows) ==
    IF rows = {} THEN <<>>
    ELSE LET first == CHOOSE r \in rows : \A o \in rows : r.start_time <= o.start_time
         IN  <<first>> \o OrderByStartTime(rows \ {first})

\* lib/supabase toCalendarEvent: the event of the response, or nothing for
\* a row without id or with an unknown source
toCalendarEvent(apt) ==
    IF apt.id = <<>> THEN <<>>
    ELSE IF apt.source \notin {"graph_api", "ics", "apple_calendar"} THEN <<>>
    ELSE << [ id |-> apt.id,
              subject |-> IF apt.subject = <<>> THEN NoTitle ELSE apt.subject,
              start_time |-> apt.start_time,
              end_time |-> apt.end_time,
              location |-> apt.location,
              organizer_email |-> apt.organizer_email,
              organizer_name |-> apt.organizer_name,
              source |-> apt.source,
              is_all_day |-> IF apt.is_all_day THEN 1 ELSE 0 ] >>

\* (the filter callback without its series test)
KeepAppointment_OccurrenceOnly(apt, ignoredBaseSet, ignoredEventSet) ==
    apt.id \notin ignoredEventSet

\* The filter callback: FALSE for an ignored occurrence
KeepAppointment(apt, ignoredBaseSet, ignoredEventSet) ==
    IF apt.id \in ignoredEventSet THEN FALSE
    ELSE IF getBaseIdFromEventId(apt.id) \in ignoredBaseSet THEN FALSE
    ELSE TRUE

\* (the map callback without the masking of the location)
MaskedEvent_KeepsLocation(apt, revealed) ==
    LET calEvent == toCalendarEvent(apt)
    IN  IF calEvent = <<>> THEN <<>>
        ELSE IF apt.source = "apple_calendar" /\ ~revealed
             THEN << [calEvent[1] EXCEPT !.subject = PersonalPlaceholder] >>
             ELSE calEvent

\* The map callback: convert, then mask a personal event unless revealed
MaskedEvent(apt, revealed) ==
    LET calEvent == toCalendarEvent(apt)
    IN  IF calEvent = <<>> THEN <<>>
        ELSE IF apt.source = "apple_calendar" /\ ~revealed
             THEN << [calEvent[1] EXCEPT !.subject = PersonalPlaceholder, !.location = <<>>] >>
             ELSE calEvent

RECURSIVE MapEvents(_, _)
MapEvents(apts, revealed) ==
    IF apts = <<>> THEN <<>>
    ELSE MaskedEvent(Head(apts), revealed) \o MapEvents(Tail(apts), revealed)

\* What the handler read, computed and answered
Response(status, revealed, rows, ignoredBaseSet, ignoredEventSet, body) ==
    [ status |-> status, personalRevealed |-> revealed, appointments |-> rows,
      ignoredBaseSet |-> ignoredBaseSet, ignoredEventSet |-> ignoredEventSet,
      body |-> body ]

NoResponse == Response(0, FALSE, <<>>, {}, {}, <<>>)

\* GET /api/events?days=<days> with the cookie lifesynced_personal_reveal =
\* <cookie> ("" when the request carries none), answered at instant now from
\* the three tables; fault names the table whose read fails, if any
GetEvents(cookie, days, now, fault, apts, ignoredBase, ignoredEvent) ==
    LET daysParam == IF days = <<>> THEN <<"3","0">> ELSE days
        daysAhead == parseInt(daysParam)
    IN  IF daysAhead = NaN \/ daysAhead < 1 \/ daysAhead > 365
        THEN Response(400, FALSE, <<>>, {}, {}, <<>>)
        ELSE
        LET revealed  == cookie = "revealed"
            startDate == StartOfUtcDay(now)
            endDate   == startDate + daysAhead * 86400 + 86399
        IN  IF fault = "appointments"
            THEN Response(500, revealed, <<>>, {}, {}, <<>>)
            ELSE
            LET rows == OrderByStartTime({ a \in apts : /\ a.start_time >= startDate
                                                        /\ a.start_time <= endDate })
                ignoredBaseSet ==
                    IF fault = "ignored_base_ids" THEN {}
                    ELSE { r.base_id : r \in ignoredBase }
                ignoredEventSet ==
                    IF fault = "ignored_event_ids" THEN {}
                    ELSE { r.event_id : r \in ignoredEvent }
                kept == SelectSeq(rows,
                            LAMBDA apt : KeepAppointment(apt, ignoredBaseSet, ignoredEventSet))
            IN  Response(200, revealed, rows, ignoredBaseSet, ignoredEventSet,
                         MapEvents(kept, revealed))

-----------------------------------------------------------------------------
(* The ignore routes and the personal-reveal route *)

\* POST /api/ignored-base-ids: upsert on the primary key base_id
PostIgnoredBaseId(table, base_id, subject, now) ==
    { r \in table : r.base_id # base_id }
    \cup { [ base_id |-> base_id, subject |-> subject, reason |-> "User ignored",
             ignored_at |-> now ] }

\* (a DELETE that answers without deleting the row)
DeleteIgnoredBaseId_KeepsRow(table, base_id) == table

\* DELETE /api/ignored-base-ids?base_id=
DeleteIgnoredBaseId(table, base_id) == { r \in table : r.base_id # base_id }

\* POST /api/ignored-event-ids: upsert on the primary key event_id
PostIgnoredEventId(table, event_id, subject, start_time, now) ==
    { r \in table : r.event_id # event_id }
    \cup { [ event_id |-> event_id, subject |-> subject, start_time |-> start_time,
             reason |-> "User ignored", ignored_at |-> now ] }

\* DELETE /api/ignored-event-ids?event_id=
DeleteIgnoredEventId(table, event_id) == { r \in table : r.event_id # event_id }

\* POST /api/personal-reveal: the status of the answer; 200 sets the cookie
PostPersonalReveal(password, correctPassword) ==
    IF correctPassword = "" THEN 403
    ELSE IF password = correctPassword THEN 200
    ELSE 401

\* GET /api/personal-reveal: { revealed }
GetPersonalReveal(cookie) == cookie = "revealed"

-----------------------------------------------------------------------------
(* The calendar page: overlap detection *)

Free == <<"F","r","e","e">>
BracketFree == <<"[","F","r","e","e","]">>

isEventIgnored(ev, ignoredEventIdSet, ignoredBaseIdSet) ==
    IF ev.id = <<>> THEN TRUE
    ELSE IF ev.id \in ignoredEventIdSet THEN TRUE
    ELSE IF pageGetBaseIdFromEventId(ev.id) \in ignoredBaseIdSet THEN TRUE
    ELSE FALSE

isAllDayOrMultiDayFree(ev) ==
    IF ev.subject # BracketFree /\ ev.subject # Free THEN FALSE
    ELSE IF ev.is_all_day # 0 THEN TRUE
    ELSE ev.end_time - ev.start_time >= 24 * 3600

\* (the overlap test with closed intervals)
IntervalsOverlap_Closed(personalEvent, workEvent) ==
    /\ personalEvent.start_time <= workEvent.end_time
    /\ personalEvent.end_time >= workEvent.start_time

\* personalStart < workEnd && personalEnd > workStart
IntervalsOverlap(personalEvent, workEvent) ==
    /\ personalEvent.start_time < workEvent.end_time
    /\ personalEvent.end_time > workEvent.start_time

getOverlappingEventIds(evs, detect, ignoredBaseIdSet, ignoredEventIdSet) ==
    IF ~detect THEN {}
    ELSE
    LET personalEvents ==
            SelectSeq(evs, LAMBDA e :
                /\ e.id # <<>>
                /\ e.source = "apple_calendar"
                /\ ~isEventIgnored(e, ignoredEventIdSet, ignoredBaseIdSet)
                /\ ~isAllDayOrMultiDayFree(e))
        workEvents ==
            SelectSeq(evs, LAMBDA e :
                /\ e.id # <<>>
                /\ (e.source = "graph_api" \/ e.source = "ics")
                /\ ~isEventIgnored(e, ignoredEventIdSet, ignoredBaseIdSet))
    IN  UNION { IF IntervalsOverlap(personalEvents[i], workEvents[j])
                THEN {personalEvents[i].id, workEvents[j].id}
                ELSE {} :
                i \in 1..Len(personalEvents), j \in 1..Len(workEvents) }

\* The memoised value the page renders from
OverlappingEventIds ==
    getOverlappingEventIds(events, detectOverlap, ignoredBaseIds, ignoredEventIds)

-----------------------------------------------------------------------------
(* The read path: a store filled by one sync pass of a work feed and a      *)
(* personal feed, then the calendar page and other HTTP clients at work.    *)

MaxIgnored == 1

\* 2025-01-01T00:00:00Z, the day of the sync
Day0 == 1735689600

Dentist == <<"D","e","n","t","i","s","t">>
Lunch == <<"L","u","n","c","h">>
Review == <<"R","e","v","i","e","w">>

\* work: a review 10:30-11:30; a daily stand-up 10:00-10:30 from the day
\* before the sync, three times
wReview  == MakeEvent(<<"w","1">>, Review, Day0 + 37800, 3600, NoDuration, FALSE, NotRecurring)
wStandup == MakeEvent(<<"w","2">>, Standup, Day0 - 86400 + 36000, 1800, NoDuration, FALSE,
                      [recurring |-> TRUE, interval |-> 86400, count |-> 3,
                       throwAt |-> NeverThrows])
\* personal: dentist 10:00-12:00, lunch 11:30-12:30, and an all-day
\* placeholder named Free
pDentist == MakeEvent(<<"p","1">>, Dentist, Day0 + 36000, 7200, NoDuration, FALSE, NotRecurring)
pLunch   == MakeEvent(<<"p","2">>, Lunch, Day0 + 41400, 3600, NoDuration, FALSE, NotRecurring)
pFree    == MakeEvent(<<"p","3">>, Free, Day0, 86400, NoDuration, TRUE, NotRecurring)

Feeds ==
    { [work |-> <<wReview>>,  personal |-> <<pDentist, pLunch>>],
      [work |-> <<wStandup>>, personal |-> <<pDentist>>],
      [work |-> <<wReview>>,  personal |-> <<pFree>>] }

RevealPasswords == {"", "pw"}
PasswordsTried == {"", "pw", "guess"}
CookieValues == {"", "revealed", "1"}
DaysParams == { <<"0">>, <<"1">>, <<"x">> }

\* What can fail while a handler runs, one thing at most: the write to the
\* ignore table, the page's read of the ignore lists, or one of the three
\* reads GET /api/events makes
EventsFaults == {"none", "appointments", "ignored_base_ids", "ignored_event_ids"}
SeriesFaults == {"none", "write", "list", "ignored_base_ids"}
OccurrenceFaults == {"none", "write", "list", "ignored_event_ids"}
RevealFaults == {"none", "appointments"}

\* The requests other HTTP clients send to GET /api/events
Requests ==
    { [cookie |-> c, days |-> <<>>, fault |-> f] : c \in CookieValues, f \in EventsFaults }
    \cup { [cookie |-> "", days |-> d, fault |-> "none"] : d \in DaysParams }

ReadInit ==
    /\ syncNow \in SyncTimes
    /\ \E feed \in Feeds :
          appointments = syncIcsCalendar(syncIcsCalendar({}, feed.work, "ics", syncNow),
                                         feed.personal, "apple_calendar", syncNow)
    /\ ignored_base_ids = {}
    /\ ignored_event_ids = {}
    /\ PERSONAL_REVEAL_PASSWORD \in RevealPasswords
    /\ revealCookie = ""
    /\ events = <<>>
    /\ ignoredBaseIds = {}
    /\ ignoredEventIds = {}
    /\ detectOverlap = FALSE
    /\ personalRevealed = FALSE
    /\ lastGet = NoResponse
    /\ passwordSupplied = FALSE
    /\ event = wReview
    /\ source = "ics"
    /\ runs = <<>>
    /\ NoSync
    /\ NoLayout
    /\ NoMore

\* fetchEvents of the page: GET /api/events?daysAhead=30 with the browser's
\* cookie; the server reads no parameter named daysAhead
fetchEvents(cookie, fault, ignoredBase, ignoredEvent) ==
    GetEvents(cookie, <<>>, syncNow, fault, appointments, ignoredBase, ignoredEvent)

\* setEvents(Array.isArray(data) ? data : []), or setEvents([]) on a failure
EventsOf(response) == IF response.status = 200 THEN response.body ELSE <<>>

\* fetchIgnoredBaseIds / fetchIgnoredEventIds: the set, emptied on a failure
FetchedBaseIds(table, fault) == IF fault = "list" THEN {} ELSE { r.base_id : r \in table }
FetchedEventIds(table, fault) == IF fault = "list" THEN {} ELSE { r.event_id : r \in table }

\* History: an ignore was added (the POST went through)
TrailAfterAdd(table, id, ok) ==
    IF ok
    THEN << [ table |-> table, id |-> id, ignored_base_ids |-> ignored_base_ids,
              ignored_event_ids |-> ignored_event_ids, removed |-> FALSE ] >>
    ELSE ignoreTrail

\* History: an ignore was removed (the DELETE went through); the trail ends
\* unless it is the ignore added last
TrailAfterRemove(table, id, ok) ==
    IF ~ok THEN ignoreTrail
    ELSE IF /\ ignoreTrail # <<>>
            /\ ~ignoreTrail[1].removed
            /\ ignoreTrail[1].table = table
            /\ ignoreTrail[1].id = id
         THEN << [ignoreTrail[1] EXCEPT !.removed = TRUE] >>
         ELSE <<>>

\* The page loads: state at its defaults, then the four fetches of the
\* mount effect
Mount ==
    \E fault \in EventsFaults \cup {"list"} :
        LET response == fetchEvents(revealCookie, fault, ignored_base_ids, ignored_event_ids)
        IN  /\ events' = EventsOf(response)
            /\ lastGet' = response
            /\ ignoredBaseIds' = FetchedBaseIds(ignored_base_ids, fault)
            /\ ignoredEventIds' = FetchedEventIds(ignored_event_ids, fault)
            /\ personalRevealed' = GetPersonalReveal(revealCookie)
            /\ detectOverlap' = FALSE
            /\ UNCHANGED <<expandVars, moreVars, ignoreTrail, syncVars, layoutVars, storeVars, PERSONAL_REVEAL_PASSWORD, revealCookie,
                           passwordSupplied>>

ToggleDetectOverlap ==
    /\ detectOverlap' = ~detectOverlap
    /\ UNCHANGED <<expandVars, moreVars, ignoreTrail, syncVars, layoutVars, storeVars, PERSONAL_REVEAL_PASSWORD, revealCookie, events,
                   ignoredBaseIds, ignoredEventIds, personalRevealed, lastGet,
                   passwordSupplied>>

\* Room for one more row in an ignore table
RoomToIgnore(table) == Cardinality(table) < MaxIgnored

\* ignoreSeries(event) on an event the page shows
IgnoreSeries ==
    \E k \in 1..Len(events), fault \in SeriesFaults :
        LET ev == events[k]
            baseId == pageGetBaseIdFromEventId(ev.id)
            ok == fault # "write" /\ baseId # <<>>
            table == IF ok THEN PostIgnoredBaseId(ignored_base_ids, baseId, ev.subject, syncNow)
                     ELSE ignored_base_ids
            response == fetchEvents(revealCookie, fault, table, ignored_event_ids)
        IN  /\ baseId \notin ignoredBaseIds
            /\ RoomToIgnore(ignored_base_ids) \/ baseId \in { r.base_id : r \in ignored_base_ids }
            /\ ignored_base_ids' = table
            /\ IF ok
               THEN /\ ignoredBaseIds' = FetchedBaseIds(table, fault)
                    /\ events' = EventsOf(response)
                    /\ lastGet' = response
               ELSE UNCHANGED <<ignoredBaseIds, events, lastGet>>
            /\ ignoreTrail' = IF ok THEN <<>> ELSE ignoreTrail
            /\ UNCHANGED <<expandVars, moreVars, syncVars, layoutVars, appointments, ignored_event_ids,
                           PERSONAL_REVEAL_PASSWORD, revealCookie, ignoredEventIds,
                           detectOverlap, personalRevealed, passwordSupplied>>

\* ignoreOccurrence(event), offered by the modal for an id that
\* isEventRecurring accepts
IgnoreOccurrence ==
    \E k \in 1..Len(events), fault \in OccurrenceFaults :
        LET ev == events[k]
            ok == fault # "write" /\ ev.id # <<>>
            table == IF ok THEN PostIgnoredEventId(ignored_event_ids, ev.id, ev.subject,
                                                   ev.start_time, syncNow)
                     ELSE ignored_event_ids
            response == fetchEvents(revealCookie, fault, ignored_base_ids, table)
        IN  /\ pageGetBaseIdFromEventId(ev.id) \notin ignoredBaseIds
            /\ isEventRecurring(ev.id)
            /\ RoomToIgnore(ignored_event_ids) \/ ev.id \in { r.event_id : r \in ignored_event_ids }
            /\ ignored_event_ids' = table
            /\ IF ok
               THEN /\ ignoredEventIds' = FetchedEventIds(table, fault)
                    /\ events' = EventsOf(response)
                    /\ lastGet' = response
               ELSE UNCHANGED <<ignoredEventIds, events, lastGet>>
            /\ ignoreTrail' = IF ok THEN <<>> ELSE ignoreTrail
            /\ UNCHANGED <<expandVars, moreVars, syncVars, layoutVars, appointments, ignored_base_ids,
                           PERSONAL_REVEAL_PASSWORD, revealCookie, ignoredBaseIds,
                           detectOverlap, personalRevealed, passwordSupplied>>

\* unignoreBaseId(base_id) from the list of ignored series
UnignoreBaseId ==
    \E baseId \in ignoredBaseIds, fault \in SeriesFaults :
        LET ok == fault # "write"
            table == IF ok THEN DeleteIgnoredBaseId(ignored_base_ids, baseId)
                     ELSE ignored_base_ids
            response == fetchEvents(revealCookie, fault, table, ignored_event_ids)
        IN  /\ ignored_base_ids' = table
            /\ IF ok
               THEN /\ ignoredBaseIds' = FetchedBaseIds(table, fault)
                    /\ events' = EventsOf(response)
                    /\ lastGet' = response
               ELSE UNCHANGED <<ignoredBaseIds, events, lastGet>>
            /\ ignoreTrail' = IF ok THEN <<>> ELSE ignoreTrail
            /\ UNCHANGED <<expandVars, moreVars, syncVars, layoutVars, appointments, ignored_event_ids,
                           PERSONAL_REVEAL_PASSWORD, revealCookie, ignoredEventIds,
                           detectOverlap, personalRevealed, passwordSupplied>>

\* unignoreEventId(event_id) from the list of ignored occurrences
UnignoreEventId ==
    \E eventId \in ignoredEventIds, fault \in OccurrenceFaults :
        LET ok == fault # "write"
            table == IF ok THEN DeleteIgnoredEventId(ignored_event_ids, eventId)
                     ELSE ignored_event_ids
            response == fetchEvents(revealCookie, fault, ignored_base_ids, table)
        IN  /\ ignored_event_ids' = table
            /\ IF ok
               THEN /\ ignoredEventIds' = FetchedEventIds(table, fault)
                    /\ events' = EventsOf(response)
                    /\ lastGet' = response
               ELSE UNCHANGED <<ignoredEventIds, events, lastGet>>
            /\ ignoreTrail' = IF ok THEN <<>> ELSE ignoreTrail
            /\ UNCHANGED <<expandVars, moreVars, syncVars, layoutVars, appointments, ignored_base_ids,
                           PERSONAL_REVEAL_PASSWORD, revealCookie, ignoredBaseIds,
                           detectOverlap, personalRevealed, passwordSupplied>>

\* handleRevealSubmit: POST /api/personal-reveal { password }; on 200 the
\* browser stores the cookie and the page refetches the events
HandleRevealSubmit ==
    \E password \in PasswordsTried, fault \in RevealFaults :
        LET status == PostPersonalReveal(password, PERSONAL_REVEAL_PASSWORD)
            response == fetchEvents("revealed", fault, ignored_base_ids, ignored_event_ids)
        IN  IF status = 200
            THEN /\ revealCookie' = "revealed"
                 /\ passwordSupplied' = TRUE
                 /\ personalRevealed' = TRUE
                 /\ events' = EventsOf(response)
                 /\ lastGet' = response
                 /\ UNCHANGED <<expandVars, moreVars, ignoreTrail, syncVars, layoutVars, storeVars, PERSONAL_REVEAL_PASSWORD,
                                ignoredBaseIds, ignoredEventIds, detectOverlap>>
            ELSE UNCHANGED vars

\* handleHidePersonal, behind the button the page shows while
\* personalRevealed: DELETE /api/personal-reveal, then refetch
HandleHidePersonal ==
    /\ personalRevealed
    /\ \E fault \in RevealFaults :
        LET response == fetchEvents("", fault, ignored_base_ids, ignored_event_ids)
        IN  /\ revealCookie' = ""
            /\ passwordSupplied' = FALSE
            /\ personalRevealed' = FALSE
            /\ events' = EventsOf(response)
            /\ lastGet' = response
    /\ UNCHANGED <<expandVars, moreVars, ignoreTrail, syncVars, layoutVars, storeVars, PERSONAL_REVEAL_PASSWORD, ignoredBaseIds,
                   ignoredEventIds, detectOverlap>>

\* maxAge: 24 hours after it was set the browser drops the cookie
RevealCookieExpires ==
    /\ revealCookie = "revealed"
    /\ revealCookie' = ""
    /\ passwordSupplied' = FALSE
    /\ lastGet' = NoResponse
    /\ UNCHANGED <<expandVars, moreVars, ignoreTrail, syncVars, layoutVars, storeVars, PERSONAL_REVEAL_PASSWORD, pageVars>>

\* GET /api/events from any HTTP client, with the cookie header and the
\* days parameter it chooses (the middleware lets /api/ through)
GetEventsRequest ==
    \E request \in Requests :
        /\ lastGet' = GetEvents(request.cookie, request.days, syncNow, request.fault,
                                appointments, ignored_base_ids, ignored_event_ids)
        /\ UNCHANGED <<expandVars, moreVars, ignoreTrail, syncVars, layoutVars, storeVars, PERSONAL_REVEAL_PASSWORD, revealCookie,
                       pageVars, passwordSupplied>>

\* (an ignore of a series that deletes the stored occurrences of the series)
PostIgnoredBaseIdRequest_DeletesSeries ==
    \E base_id \in { getBaseIdFromEventId(a.id) : a \in appointments } :
        /\ RoomToIgnore(ignored_base_ids) \/ base_id \in { r.base_id : r \in ignored_base_ids }
        /\ ignored_base_ids' = PostIgnoredBaseId(ignored_base_ids, base_id, <<>>, syncNow)
        /\ appointments' = { a \in appointments : getBaseIdFromEventId(a.id) # base_id }
        /\ lastGet' = NoResponse
        /\ ignoreTrail' = TrailAfterAdd("ignored_base_ids", base_id, TRUE)
        /\ UNCHANGED <<expandVars, moreVars, syncVars, layoutVars, ignored_event_ids,
                       PERSONAL_REVEAL_PASSWORD, revealCookie, pageVars, passwordSupplied>>

\* POST /api/ignored-base-ids { base_id } from any HTTP client
PostIgnoredBaseIdRequest ==
    \E base_id \in { getBaseIdFromEventId(a.id) : a \in appointments } \cup {<<>>},
       fault \in {"none", "write"} :
        /\ RoomToIgnore(ignored_base_ids) \/ base_id \in { r.base_id : r \in ignored_base_ids }
        /\ ignored_base_ids' =
              IF base_id = <<>> \/ fault = "write" THEN ignored_base_ids
              ELSE PostIgnoredBaseId(ignored_base_ids, base_id, <<>>, clock)
        /\ lastGet' = IF ignored_base_ids' = ignored_base_ids THEN lastGet ELSE NoResponse
        /\ ignoreTrail' = TrailAfterAdd("ignored_base_ids", base_id,
                                        base_id # <<>> /\ fault # "write")
        /\ UNCHANGED <<expandVars, moreVars, syncVars, layoutVars, appointments, ignored_event_ids,
                       PERSONAL_REVEAL_PASSWORD, revealCookie, pageVars, passwordSupplied>>

\* DELETE /api/ignored-base-ids?base_id= from any HTTP client
DeleteIgnoredBaseIdRequest ==
    \E base_id \in { getBaseIdFromEventId(a.id) : a \in appointments }
                     \cup { r.base_id : r \in ignored_base_ids } \cup {<<>>},
       fault \in {"none", "write"} :
        /\ ignored_base_ids' =
              IF base_id = <<>> \/ fault = "write" THEN ignored_base_ids
              ELSE DeleteIgnoredBaseId(ignored_base_ids, base_id)
        /\ lastGet' = IF ignored_base_ids' = ignored_base_ids THEN lastGet ELSE NoResponse
        /\ ignoreTrail' = TrailAfterRemove("ignored_base_ids", base_id,
                                           base_id # <<>> /\ fault # "write")
        /\ UNCHANGED <<expandVars, moreVars, syncVars, layoutVars, appointments, ignored_event_ids,
                       PERSONAL_REVEAL_PASSWORD, revealCookie, pageVars, passwordSupplied>>

\* POST /api/ignored-event-ids { event_id } from any HTTP client
PostIgnoredEventIdRequest ==
    \E event_id \in { a.id : a \in appointments } \cup {<<>>},
       fault \in {"none", "write"} :
        /\ RoomToIgnore(ignored_event_ids)
              \/ event_id \in { r.event_id : r \in ignored_event_ids }
        /\ ignored_event_ids' =
              IF event_id = <<>> \/ fault = "write" THEN ignored_event_ids
              ELSE PostIgnoredEventId(ignored_event_ids, event_id, <<>>, NoDate, clock)
        /\ lastGet' = IF ignored_event_ids' = ignored_event_ids THEN lastGet ELSE NoResponse
        /\ ignoreTrail' = TrailAfterAdd("ignored_event_ids", event_id,
                                        event_id # <<>> /\ fault # "write")
        /\ UNCHANGED <<expandVars, moreVars, syncVars, layoutVars, appointments, ignored_base_ids,
                       PERSONAL_REVEAL_PASSWORD, revealCookie, pageVars, passwordSupplied>>

\* DELETE /api/ignored-event-ids?event_id= from any HTTP client
DeleteIgnoredEventIdRequest ==
    \E event_id \in { a.id : a \in appointments }
                      \cup { r.event_id : r \in ignored_event_ids } \cup {<<>>},
       fault \in {"none", "write"} :
        /\ ignored_event_ids' =
              IF event_id = <<>> \/ fault = "write" THEN ignored_event_ids
              ELSE DeleteIgnoredEventId(ignored_event_ids, event_id)
        /\ lastGet' = IF ignored_event_ids' = ignored_event_ids THEN lastGet ELSE NoResponse
        /\ ignoreTrail' = TrailAfterRemove("ignored_event_ids", event_id,
                                           event_id # <<>> /\ fault # "write")
        /\ UNCHANGED <<expandVars, moreVars, syncVars, layoutVars, appointments, ignored_base_ids,
                       PERSONAL_REVEAL_PASSWORD, revealCookie, pageVars, passwordSupplied>>

\* POST /api/personal-reveal { password } from a browser, which stores the
\* cookie of a 200
PostPersonalRevealRequest ==
    \E password \in PasswordsTried :
        /\ IF PostPersonalReveal(password, PERSONAL_REVEAL_PASSWORD) = 200
           THEN revealCookie' = "revealed" /\ passwordSupplied' = TRUE
           ELSE UNCHANGED <<revealCookie, passwordSupplied>>
        /\ lastGet' = IF revealCookie' = revealCookie THEN lastGet ELSE NoResponse
        /\ UNCHANGED <<expandVars, moreVars, ignoreTrail, syncVars, layoutVars, storeVars, PERSONAL_REVEAL_PASSWORD, pageVars>>

\* DELETE /api/personal-reveal from that browser
DeletePersonalRevealRequest ==
    /\ revealCookie' = ""
    /\ passwordSupplied' = FALSE
    /\ lastGet' = IF revealCookie = "" THEN lastGet ELSE NoResponse
    /\ UNCHANGED <<expandVars, moreVars, ignoreTrail, syncVars, layoutVars, storeVars, PERSONAL_REVEAL_PASSWORD, pageVars>>

\* GET /api/events from that browser, with the cookie it holds
GetEventsFromBrowser ==
    \E fault \in EventsFaults :
        /\ lastGet' = GetEvents(revealCookie, <<>>, syncNow, fault, appointments,
                                ignored_base_ids, ignored_event_ids)
        /\ UNCHANGED <<expandVars, moreVars, ignoreTrail, syncVars, layoutVars, storeVars, PERSONAL_REVEAL_PASSWORD, revealCookie,
                       pageVars, passwordSupplied>>

\* The routes, requested by a browser and by other HTTP clients
ApiNext ==
    \/ PostIgnoredBaseIdRequest
    \/ DeleteIgnoredBaseIdRequest
    \/ PostIgnoredEventIdRequest
    \/ DeleteIgnoredEventIdRequest
    \/ PostPersonalRevealRequest
    \/ DeletePersonalRevealRequest
    \/ RevealCookieExpires
    \/ GetEventsFromBrowser
    \/ GetEventsRequest

SpecApi == ReadInit /\ [][ApiNext]_vars

\* The calendar page in a browser, each handler with the requests it makes
PageNext ==
    \/ Mount
    \/ ToggleDetectOverlap
    \/ IgnoreSeries
    \/ IgnoreOccurrence
    \/ UnignoreBaseId
    \/ UnignoreEventId
    \/ HandleRevealSubmit
    \/ HandleHidePersonal
    \/ RevealCookieExpires

SpecPage == ReadInit /\ [][PageNext]_vars

-----------------------------------------------------------------------------
(* Properties of the read path: of the page (checked under SpecPage) and   *)
(* of the routes (checked under SpecApi)                                   *)

EventSet == { events[k] : k \in 1..Len(events) }

IsPersonal(e) == e.source = "apple_calendar"
IsWork(e) == e.source = "graph_api" \/ e.source = "ics"

\* Ignored as the page sees it
IgnoredOnPage(e) ==
    \/ e.id \in ignoredEventIds
    \/ pageGetBaseIdFromEventId(e.id) \in ignoredBaseIds

\* A background placeholder: named exactly Free or [Free], and all-day or
\* at least 24 hours long
IsFreePlaceholder(e) ==
    /\ e.subject \in {Free, BracketFree}
    /\ (e.is_all_day = 1 \/ e.end_time - e.start_time >= 86400)

\* p (personal) and w (work) intersect as half-open intervals
Conflict(p, w) ==
    /\ IsPersonal(p) /\ IsWork(w)
    /\ p.start_time < w.end_time /\ p.end_time > w.start_time

\* C6 (as stated): with overlap detection on, the overlap set is exactly the
\* set of ids of non-ignored events that take part in at least one
\* (personal, work) pair with p.start < w.end and p.end > w.start.
C6_OverlapSetExact ==
    detectOverlap =>
        OverlappingEventIds =
            { e.id : e \in { x \in EventSet :
                /\ ~IgnoredOnPage(x)
                /\ \E y \in EventSet : /\ ~IgnoredOnPage(y)
                                       /\ (Conflict(x, y) \/ Conflict(y, x)) } }

\* C6 (amended): the same, with the personal events that are Free
\* placeholders left out of the pairing; a pair that only touches at an
\* endpoint, and a pair of one category, contribute nothing.
C6_OverlapSetExactButFree ==
    detectOverlap =>
        OverlappingEventIds =
            { e.id : e \in { x \in EventSet :
                /\ ~IgnoredOnPage(x)
                /\ \E y \in EventSet :
                      /\ ~IgnoredOnPage(y)
                      /\ \/ Conflict(x, y) /\ ~IsFreePlaceholder(x)
                         \/ Conflict(y, x) /\ ~IsFreePlaceholder(y) } }

\* C6 witness: detection is on, a personal and a work event conflict and
\* both are flagged, and a personal event that starts when that work event
\* ends and lies over that personal event is not flagged.
C6_Witness ==
    /\ detectOverlap
    /\ \E p, q, w \in EventSet :
          /\ Conflict(p, w) /\ {p.id, w.id} \subseteq OverlappingEventIds
          /\ IsPersonal(q) /\ q.start_time = w.end_time
          /\ q.start_time < p.end_time /\ q.end_time > p.start_time
          /\ q.id \notin OverlappingEventIds

\* The ids of the events a response carries
BodyIds(response) == { response.body[j].id : j \in 1..Len(response.body) }

\* C7: GET /api/events leaves an occurrence out when its base id is in the
\* ignored series set, its own id ignored or not, and when its own id is in
\* the ignored occurrence set, its base id ignored or not; an occurrence
\* matching neither is kept.
C7_IgnoreFilter ==
    lastGet.status = 200 =>
        \A k \in 1..Len(lastGet.appointments) :
            LET apt == lastGet.appointments[k]
            IN  apt.id \in BodyIds(lastGet)
                    <=> ~ \/ getBaseIdFromEventId(apt.id) \in lastGet.ignoredBaseSet
                          \/ apt.id \in lastGet.ignoredEventSet

\* C7 witness: one answer in which an occurrence was left out for its
\* series alone, another for its own id alone, and a third was kept.
C7_Witness ==
    /\ lastGet.status = 200
    /\ \E k \in 1..Len(lastGet.appointments) :
          /\ getBaseIdFromEventId(lastGet.appointments[k].id) \in lastGet.ignoredBaseSet
          /\ lastGet.appointments[k].id \notin lastGet.ignoredEventSet
          /\ lastGet.appointments[k].id \notin BodyIds(lastGet)
    /\ \E k \in 1..Len(lastGet.appointments) :
          /\ getBaseIdFromEventId(lastGet.appointments[k].id) \notin lastGet.ignoredBaseSet
          /\ lastGet.appointments[k].id \in lastGet.ignoredEventSet
          /\ lastGet.appointments[k].id \notin BodyIds(lastGet)
    /\ \E k \in 1..Len(lastGet.appointments) :
          lastGet.appointments[k].id \in BodyIds(lastGet)

\* The events of the last answer had its reveal flag been the other one
OtherwiseMasked ==
    MapEvents(SelectSeq(lastGet.appointments,
                  LAMBDA apt : KeepAppointment(apt, lastGet.ignoredBaseSet,
                                               lastGet.ignoredEventSet)),
              ~lastGet.personalRevealed)

\* C8: the overlap set the page computes from the events as delivered equals
\* the one it computes from the same events delivered with the other reveal
\* flag: masking never changes which ids are flagged.
C8_MaskingIndependence ==
    (detectOverlap /\ lastGet.status = 200 /\ events = lastGet.body) =>
        OverlappingEventIds =
            getOverlappingEventIds(OtherwiseMasked, detectOverlap, ignoredBaseIds,
                                   ignoredEventIds)

\* C9: every returned event that is personal while the reveal flag is false
\* has the subject '[Personal Event]' and an empty location; every other
\* returned event has the subject and location of its row; no other field
\* of a returned event differs from its row.
C9_PrivacyMasker ==
    lastGet.status = 200 =>
        \A j \in 1..Len(lastGet.body) :
            \E k \in 1..Len(lastGet.appointments) :
                LET e == lastGet.body[j]
                    apt == lastGet.appointments[k]
                IN  /\ e.id = apt.id
                    /\ IF apt.source = "apple_calendar" /\ ~lastGet.personalRevealed
                       THEN e.subject = PersonalPlaceholder /\ e.location = <<>>
                       ELSE e.subject = apt.subject /\ e.location = apt.location
                    /\ e.start_time = apt.start_time
                    /\ e.end_time = apt.end_time
                    /\ e.organizer_email = apt.organizer_email
                    /\ e.organizer_name = apt.organizer_name
                    /\ e.source = apt.source
                    /\ e.is_all_day = (IF apt.is_all_day THEN 1 ELSE 0)

\* C9 witness: an answer with the reveal flag false that carries a personal
\* event whose row has a location and a work event.
C9_Witness ==
    /\ lastGet.status = 200
    /\ ~lastGet.personalRevealed
    /\ \E j \in 1..Len(lastGet.body) : lastGet.body[j].source = "ics"
    /\ \E j \in 1..Len(lastGet.body), k \in 1..Len(lastGet.appointments) :
          /\ lastGet.body[j].id = lastGet.appointments[k].id
          /\ lastGet.body[j].source = "apple_calendar"
          /\ lastGet.appointments[k].location # <<>>

\* An answer that carries a personal event's real subject or location
RevealsPersonal(response) ==
    /\ response.status = 200
    /\ \E j \in 1..Len(response.body) :
          /\ response.body[j].source = "apple_calendar"
          /\ \/ response.body[j].subject # PersonalPlaceholder
             \/ response.body[j].location # <<>>

\* C10: GET /api/events answers with a personal event's real subject or
\* location only when a password is configured and the correct one was
\* posted to /api/personal-reveal, the reveal neither cleared nor expired
\* since.
C10_RevealOnlyAfterPassword ==
    [][ (lastGet' # lastGet /\ RevealsPersonal(lastGet'))
            => (passwordSupplied' /\ PERSONAL_REVEAL_PASSWORD # "") ]_vars

-----------------------------------------------------------------------------
(* The week view of the calendar page: the events of a day and their        *)
(* side-by-side layout (calculateEventLayout).  An hour value               *)
(* hours + minutes / 60 is kept as its number of minutes, a percentage as   *)
(* the fraction <<numerator, denominator>>.                                 *)

\* Some of the time zones the page offers, and their offsets from UTC in
\* January, in seconds
Timezones == {"America/Los_Angeles", "Europe/London", "Asia/Kolkata"}

UtcOffset(tz) ==
    CASE tz = "America/Los_Angeles" -> 0 - 8 * 3600
      [] tz = "Europe/London"       -> 0
      [] tz = "Asia/Kolkata"        -> 5 * 3600 + 1800

\* How Intl.DateTimeFormat('en-US', { hour12: false }) writes the hour of
\* midnight: "0" (h23) or "24" (h24), as the browser's engine has it
HourCycles == {"h23", "h24"}

\* date.toLocaleDateString('en-CA', { timeZone }): the civil day, as its
\* day number
DateKey(t, tz) == (t + UtcOffset(tz)) \div 86400

\* getHoursInTimezone(dateStr): the hour and the minute parts of the time
\* of day in the selected zone; the seconds are not read
getHoursInTimezone(t, tz, cycle) ==
    LET sod     == (t + UtcOffset(tz)) % 86400
        h       == sod \div 3600
        hours   == IF h = 0 /\ cycle = "h24" THEN 24 ELSE h
        minutes == (sod % 3600) \div 60
    IN  hours * 60 + minutes

gridStartHour == 0
gridEndHour == 24 * 60

Min(a, b) == IF a < b THEN a ELSE b
Max(a, b) == IF a > b THEN a ELSE b

\* Array.prototype.sort with (a, b) => a.start_time - b.start_time: stable
RECURSIVE SortByStartTime(_)
SortByStartTime(evs) ==
    IF evs = <<>> THEN <<>>
    ELSE LET n      == Len(evs)
             sorted == SortByStartTime(SubSeq(evs, 1, n - 1))
             k      == Cardinality({ i \in 1..Len(sorted) :
                                       sorted[i].start_time <= evs[n].start_time })
         IN  SubSeq(sorted, 1, k) \o <<evs[n]>> \o SubSeq(sorted, k + 1, Len(sorted))

\* eventsByDate[dateKey]: the events of the list that start on that day in
\* the selected zone, series ignored on the page left out
eventsByDate(evs, ignoredBaseIdSet, tz, dateKey) ==
    SortByStartTime(SelectSeq(evs, LAMBDA e :
        /\ e.id # <<>>
        /\ e.start_time # NoDate
        /\ pageGetBaseIdFromEventId(e.id) \notin ignoredBaseIdSet
        /\ DateKey(e.start_time, tz) = dateKey))

getEventsForDate(date, evs, ignoredBaseIdSet, tz) ==
    SortByStartTime(SelectSeq(eventsByDate(evs, ignoredBaseIdSet, tz, DateKey(date, tz)),
        LAMBDA e : pageGetBaseIdFromEventId(e.id) \notin ignoredBaseIdSet))

\* events.map(event => ({ event, startHour, endHour, column: 0,
\* totalColumns: 1 }))
Slots(evs, tz, cycle) ==
    [ i \in 1..Len(evs) |->
        [ event        |-> evs[i],
          startHour    |-> Max(gridStartHour,
                               Min(gridEndHour, getHoursInTimezone(evs[i].start_time, tz, cycle))),
          endHour      |-> Max(gridStartHour,
                               Min(gridEndHour, getHoursInTimezone(evs[i].end_time, tz, cycle))),
          column       |-> 0,
          totalColumns |-> 1 ] ]

\* The comparator of slots.sort is negative or zero: a need not move behind b
SlotNotAfter(a, b) ==
    IF a.startHour # b.startHour THEN a.startHour < b.startHour
    ELSE b.endHour - a.endHour <= 0

\* slots.sort(...): by start, the longer first; stable
RECURSIVE SortSlots(_)
SortSlots(slots) ==
    IF slots = <<>> THEN <<>>
    ELSE LET n      == Len(slots)
             sorted == SortSlots(SubSeq(slots, 1, n - 1))
             k      == Cardinality({ i \in 1..Len(sorted) : SlotNotAfter(sorted[i], slots[n]) })
         IN  SubSeq(sorted, 1, k) \o <<slots[n]>> \o SubSeq(sorted, k + 1, Len(sorted))

\* slot.startHour < g.endHour && slot.endHour > g.startHour
SlotsOverlap(slot, g) ==
    slot.startHour < g.endHour /\ slot.endHour > g.startHour

\* (a slot that joins a group takes the column after the last slot's)
RECURSIVE AssignColumns_NextOfLast(_, _)
AssignColumns_NextOfLast(slots, groups) ==
    IF slots = <<>> THEN groups
    ELSE
    LET slot == Head(slots)
        hits == { g \in 1..Len(groups) :
                    \E i \in 1..Len(groups[g]) :
                        /\ slot.startHour < groups[g][i].endHour
                        /\ slot.endHour > groups[g][i].startHour }
    IN  IF hits = {}
        THEN AssignColumns_NextOfLast(Tail(slots), Append(groups, <<[slot EXCEPT !.column = 0]>>))
        ELSE
        LET g     == CHOOSE x \in hits : \A y \in hits : x <= y
            group == groups[g]
            col   == IF group[Len(group)].column = 0 THEN 1 ELSE 0
        IN  AssignColumns_NextOfLast(Tail(slots),
                [groups EXCEPT ![g] = Append(group, [slot EXCEPT !.column = col])])

\* The for loop over the sorted slots: the slot joins the first group it
\* overlaps a member of, in the first column free of overlapping members,
\* or opens a group
RECURSIVE AssignColumns(_, _)
AssignColumns(slots, groups) ==
    IF slots = <<>> THEN groups
    ELSE
    LET slot == Head(slots)
        hits == { g \in 1..Len(groups) :
                    \E i \in 1..Len(groups[g]) : SlotsOverlap(slot, groups[g][i]) }
    IN  IF hits = {}
        THEN AssignColumns(Tail(slots), Append(groups, <<[slot EXCEPT !.column = 0]>>))
        ELSE
        LET g     == CHOOSE x \in hits : \A y \in hits : x <= y
            group == groups[g]
            columnTaken(c) == \E i \in 1..Len(group) :
                                  group[i].column = c /\ SlotsOverlap(slot, group[i])
            col   == CHOOSE c \in 0..Len(group) :
                         ~columnTaken(c) /\ \A d \in 0..(c - 1) : columnTaken(d)
        IN  AssignColumns(Tail(slots),
                          [groups EXCEPT ![g] = Append(group, [slot EXCEPT !.column = col])])

\* (the number of slots of the group written to every slot of the group)
WithTotalColumns_GroupSize(group) ==
    [ i \in 1..Len(group) |-> [group[i] EXCEPT !.totalColumns = Len(group)] ]

\* Math.max(...group.map(s => s.column)) + 1, written to every slot of the
\* group
WithTotalColumns(group) ==
    LET maxCol == (CHOOSE c \in { group[i].column : i \in 1..Len(group) } :
                       \A i \in 1..Len(group) : group[i].column <= c) + 1
    IN  [ i \in 1..Len(group) |-> [group[i] EXCEPT !.totalColumns = maxCol] ]

\* The slots once both loops have run, group after group
RECURSIVE Flatten(_)
Flatten(groups) ==
    IF groups = <<>> THEN <<>> ELSE WithTotalColumns(Head(groups)) \o Flatten(Tail(groups))

LayoutSlots(evs, tz, cycle) == Flatten(AssignColumns(SortSlots(Slots(evs, tz, cycle)), <<>>))

\* calculateEventLayout(events): the Map from event id to top, height, left
\* and width; where several slots carry one id the last one set stays, and
\* slots.sort leaves slots of one id in the order SortSlots gives them
calculateEventLayout(evs, tz, cycle) ==
    LET placed == LayoutSlots(evs, tz, cycle)
        sorted == SortSlots(Slots(evs, tz, cycle))
        ids    == { evs[i].id : i \in 1..Len(evs) }
        lastOf(id) == sorted[CHOOSE k \in 1..Len(sorted) :
                                /\ sorted[k].event.id = id
                                /\ \A j \in (k + 1)..Len(sorted) : sorted[j].event.id # id]
        slotOf(id) == placed[CHOOSE k \in 1..Len(placed) : placed[k].event = lastOf(id).event]
    IN  [ id \in ids |->
            LET slot == slotOf(id)
            IN  [ top    |-> <<100 * (slot.startHour - gridStartHour), gridEndHour - gridStartHour>>,
                  height |-> <<Max(100 * (slot.endHour - slot.startHour),
                                   2 * (gridEndHour - gridStartHour)),
                               gridEndHour - gridStartHour>>,
                  left   |-> <<100 * slot.column, slot.totalColumns>>,
                  width  |-> <<100, slot.totalColumns>> ] ]

-----------------------------------------------------------------------------
(* Layout experiments: a list of events as GET /api/events delivers it, a   *)
(* time zone, and the week view rendering the column of a day.              *)

MaxLayoutEvents == 3

CalendarEvent(id, subject, src, start, end, allDay) ==
    [ id |-> id, subject |-> subject, start_time |-> start, end_time |-> end,
      location |-> <<>>, organizer_email |-> <<>>, organizer_name |-> <<>>,
      source |-> src, is_all_day |-> allDay ]

\* 2025-01-01T00:00 in Los Angeles
LocalDay0 == Day0 + 8 * 3600

\* Times of day are those of Los Angeles: three meetings that overlap one
\* another (10:00-11:00, 10:30-11:30, 10:45-12:00), one that starts with
\* the first and is longer (10:00-12:00), one that starts when the first
\* ends (11:00-12:00), a day out (01:00-23:00), a reminder
\* without duration (16:00), an evening that runs past midnight (22:00-02:00) and
\* a call within it (23:00-23:30), a call at 00:30-01:00, and an all-day
\* event of 2025-01-01 as a feed synced in UTC stores it
LayoutPool ==
    { CalendarEvent(<<"a","_","2","0","2","5","0","1","0","1","T","1","8","0","0","0","0">>,
                    Standup, "ics", LocalDay0 + 36000, LocalDay0 + 39600, 0),
      CalendarEvent(<<"b">>, Review, "ics", LocalDay0 + 37800, LocalDay0 + 41400, 0),
      CalendarEvent(<<"c">>, Dentist, "apple_calendar", LocalDay0 + 38700, LocalDay0 + 43200, 0),
      CalendarEvent(<<"g">>, Review, "ics", LocalDay0 + 36000, LocalDay0 + 43200, 0),
      CalendarEvent(<<"d">>, Lunch, "apple_calendar", LocalDay0 + 39600, LocalDay0 + 43200, 0),
      CalendarEvent(<<"n">>, Dentist, "apple_calendar", LocalDay0 + 79200, LocalDay0 + 93600, 0),
      CalendarEvent(<<"m">>, Review, "ics", LocalDay0 + 82800, LocalDay0 + 84600, 0),
      CalendarEvent(<<"z">>, Standup, "ics", LocalDay0 + 1800, LocalDay0 + 3600, 0),
      CalendarEvent(<<"w">>, Lunch, "apple_calendar", LocalDay0 + 3600, LocalDay0 + 82800, 0),
      CalendarEvent(<<"p">>, Standup, "ics", LocalDay0 + 57600, LocalDay0 + 57600, 0),
      CalendarEvent(<<"f">>, Lunch, "apple_calendar", Day0, Day0 + 86400, 1) }

\* The lists the server can deliver: ordered by start_time
LayoutEventLists ==
    { OrderByStartTime(S) : S \in { T \in SUBSET LayoutPool : Cardinality(T) <= MaxLayoutEvents } }

\* The days of the week view, each as an instant of that day in every zone
\* of Timezones
WeekDates == { Day0 + 43200 + k * 86400 : k \in {0 - 1, 0, 1} }

LayoutInit ==
    /\ events \in LayoutEventLists
    /\ ignoredBaseIds \in { {}, {<<"a">>} }
    /\ timezone \in Timezones
    /\ hourCycle \in HourCycles
    /\ dayEvents = <<>>
    /\ layout = <<>>
    /\ syncNow \in SyncTimes
    /\ event = wReview
    /\ source = "ics"
    /\ runs = <<>>
    /\ appointments = {}
    /\ ignored_base_ids = {}
    /\ ignored_event_ids = {}
    /\ PERSONAL_REVEAL_PASSWORD = ""
    /\ revealCookie = ""
    /\ ignoredEventIds = {}
    /\ detectOverlap = FALSE
    /\ personalRevealed = FALSE
    /\ lastGet = NoResponse
    /\ passwordSupplied = FALSE
    /\ NoSync
    /\ NoMore

\* The week view renders the column of one day:
\* calculateEventLayout(getEventsForDate(date))
RenderWeekDay ==
    \E date \in WeekDates :
        LET evs == getEventsForDate(date, events, ignoredBaseIds, timezone)
        IN  /\ dayEvents' = evs
            /\ layout' = calculateEventLayout(evs, timezone, hourCycle)
            /\ UNCHANGED <<expandVars, moreVars, ignoreTrail, readVars, syncVars, timezone, hourCycle>>

LayoutNext == RenderWeekDay

SpecLayout == LayoutInit /\ [][LayoutNext]_vars

-----------------------------------------------------------------------------
(* Properties of the layout (checked under SpecLayout) *)

DayEventSet == { dayEvents[i] : i \in 1..Len(dayEvents) }

\* Two events overlap in time: each starts before the other ends
OverlapInTime(x, y) == x.start_time < y.end_time /\ y.start_time < x.end_time

\* The column index and the number of columns of a layout entry:
\* left = column * width and width = 100 / totalColumns
ColumnOf(entry) == entry.left[1] \div entry.width[1]
TotalColumnsOf(entry) == entry.width[2]

\* C11: when the k events of a day all mutually overlap in time they
\* receive the k distinct column indices 0..k-1 and totalColumns = k each;
\* when the events of a day are pairwise disjoint in time each receives
\* column 0 and totalColumns = 1.
C11_LayoutColumns ==
    LET k == Cardinality(DayEventSet)
    IN  /\ (\A x, y \in DayEventSet : x # y => OverlapInTime(x, y)) =>
              /\ { ColumnOf(layout[e.id]) : e \in DayEventSet } = 0..(k - 1)
              /\ \A e \in DayEventSet : TotalColumnsOf(layout[e.id]) = k
        /\ (\A x, y \in DayEventSet : x # y => ~OverlapInTime(x, y)) =>
              \A e \in DayEventSet :
                  ColumnOf(layout[e.id]) = 0 /\ TotalColumnsOf(layout[e.id]) = 1

\* (C11, the part the code keeps: the same of events that each begin and
\* end on the rendered day, at least a minute long, none at the hour of
\* midnight.)
C11_LayoutColumnsWithinDay ==
    (\A e \in DayEventSet :
        /\ DateKey(e.start_time, timezone) = DateKey(e.end_time, timezone)
        /\ e.end_time - e.start_time >= 60
        /\ (e.start_time + UtcOffset(timezone)) % 86400 >= 3600) => C11_LayoutColumns

-----------------------------------------------------------------------------
(* A sync pass: POST /api/sync.  A feed is the record                       *)
(*   source    : 'ics' for OUTLOOK_ICS_URL, 'apple_calendar' for a URL of   *)
(*               APPLE_CALENDAR_ICS_URL,                                    *)
(*   status    : the status of the response to fetch(url), FetchThrows when *)
(*               fetch itself throws,                                       *)
(*   parses    : ICAL.parse and new ICAL.Component accept the text,         *)
(*   vevents   : the VEVENTs of the document, each [malformed, event]:      *)
(*               reading a malformed one throws inside the loop's try,      *)
(*   writeFails: the upsert of this feed's batch answers with an error.     *)

FetchThrows == 0

\* (a fetch whose status is not looked at)
ResponseOk_Always(status) == TRUE

\* response.ok
ResponseOk(status) == status \in 200..299

\* (a loop over vevents that ends at the first malformed one)
RECURSIVE ExpandVevents_StopsAtMalformed(_, _, _)
ExpandVevents_StopsAtMalformed(vevents, src, now) ==
    IF vevents = <<>> THEN [events |-> <<>>, errors |-> <<>>]
    ELSE IF Head(vevents).malformed
         THEN [events |-> <<>>, errors |-> <<"Failed to parse event">>]
         ELSE LET rest == ExpandVevents_StopsAtMalformed(Tail(vevents), src, now)
              IN  [ events |-> expandEvent(Head(vevents).event, RangeStart(now),
                                           RangeEnd(now), src, now) \o rest.events,
                    errors |-> rest.errors ]

\* The for loop over vevents: the records pushed to eventsToUpsert and the
\* diagnostics pushed to result.errors
RECURSIVE ExpandVevents(_, _, _)
ExpandVevents(vevents, src, now) ==
    IF vevents = <<>> THEN [events |-> <<>>, errors |-> <<>>]
    ELSE LET rest == ExpandVevents(Tail(vevents), src, now)
         IN  IF Head(vevents).malformed
             THEN [ events |-> rest.events,
                    errors |-> <<"Failed to parse event">> \o rest.errors ]
             ELSE [ events |-> expandEvent(Head(vevents).event, RangeStart(now),
                                           RangeEnd(now), src, now) \o rest.events,
                    errors |-> rest.errors ]

SyncResult(src, added, errors) ==
    [source |-> src, added |-> added, updated |-> 0, errors |-> errors]

\* What a call of syncIcsCalendar leaves: the table, the SyncResult it
\* returns, and the dedupedEvents it built (<<>> when it built none)
SyncOutcome(table, result, deduped) ==
    [appointments |-> table, result |-> result, deduped |-> deduped]

\* The rest of syncIcsCalendar once the loop over the VEVENTs has run:
\* dedupe and upsert, if there is anything to upsert
StoreBatch(table, feed, configured, expanded) ==
    IF Len(expanded.events) > 0
    THEN LET dedupedEvents == DedupedEvents(expanded.events)
         IN  IF ~configured
             THEN SyncOutcome(table,
                      SyncResult(feed.source, 0, expanded.errors \o
                          <<"Supabase environment variables not configured">>),
                      dedupedEvents)
             ELSE IF feed.writeFails
             THEN SyncOutcome(table,
                      SyncResult(feed.source, 0, expanded.errors \o <<"Database error">>),
                      dedupedEvents)
             ELSE SyncOutcome(UpsertAppointments(table, dedupedEvents),
                      SyncResult(feed.source, Len(dedupedEvents), expanded.errors),
                      dedupedEvents)
    ELSE SyncOutcome(table, SyncResult(feed.source, 0, expanded.errors), <<>>)

\* syncIcsCalendar(url, source) on the table, with everything that can fail
SyncFeed(table, feed, configured, now) ==
    IF feed.status = FetchThrows
    THEN SyncOutcome(table, SyncResult(feed.source, 0, <<"fetch failed">>), <<>>)
    ELSE IF ~ResponseOk(feed.status)
    THEN SyncOutcome(table, SyncResult(feed.source, 0, <<"Failed to fetch ICS">>), <<>>)
    ELSE IF ~feed.parses
    THEN SyncOutcome(table, SyncResult(feed.source, 0, <<"invalid ical body">>), <<>>)
    ELSE StoreBatch(table, feed, configured,
                    ExpandVevents(feed.vevents, feed.source, now))

\* The call ended with a feed-level failure: the fetch, the parse or the
\* write
FeedLevelFailure(feed, outcome) ==
    \/ feed.status = FetchThrows
    \/ ~ResponseOk(feed.status)
    \/ ~feed.parses
    \/ outcome.deduped # <<>> /\ outcome.result.added = 0

\* results.flatMap(r => r.errors)
RECURSIVE allErrors(_)
allErrors(rs) == IF rs = <<>> THEN <<>> ELSE Head(rs).errors \o allErrors(Tail(rs))

\* process.env.OUTLOOK_ICS_URL / process.env.APPLE_CALENDAR_ICS_URL is set
outlookIcsUrl == \E k \in 1..Len(feeds) : feeds[k].source = "ics"
appleIcsUrls == \E k \in 1..Len(feeds) : feeds[k].source = "apple_calendar"

-----------------------------------------------------------------------------
(* Sync experiments: the feeds of the environment, then one pass *)

MaxAppleFeeds == 2

Vevent(ev) == [malformed |-> FALSE, event |-> ev]
MalformedVevent == [malformed |-> TRUE, event |-> wReview]

\* The review under another name: the same UID and start a second time
wReviewRenamed == MakeEvent(<<"w","1">>, Lunch, Day0 + 37800, 3600, NoDuration, FALSE,
                            NotRecurring)
\* The invitation to the review as the personal calendar holds it: the UID
\* and the start of the work calendar's event
pReviewInvitation == MakeEvent(<<"w","1">>, Review, Day0 + 37800, 3600, NoDuration, FALSE,
                               NotRecurring)

WorkDocuments ==
    { <<Vevent(wReview), Vevent(wStandup)>>,
      <<Vevent(wReview), Vevent(wReviewRenamed)>>,
      <<MalformedVevent, Vevent(wReview)>>,
      <<>> }

PersonalDocuments ==
    { <<Vevent(pDentist), Vevent(pLunch)>>,
      <<Vevent(pReviewInvitation), Vevent(pDentist)>>,
      <<Vevent(pDentist), MalformedVevent>> }

Feed(src, status, parses, vevents, writeFails) ==
    [source |-> src, status |-> status, parses |-> parses, vevents |-> vevents,
     writeFails |-> writeFails]

\* What OUTLOOK_ICS_URL can serve: each document with nothing failing, and
\* one document with each thing that can fail
WorkFeeds ==
    { Feed("ics", 200, TRUE, doc, FALSE) : doc \in WorkDocuments }
    \cup { Feed("ics", 404, TRUE, <<Vevent(wReview), Vevent(wStandup)>>, FALSE),
           Feed("ics", FetchThrows, TRUE, <<Vevent(wReview), Vevent(wStandup)>>, FALSE),
           Feed("ics", 200, FALSE, <<Vevent(wReview), Vevent(wStandup)>>, FALSE),
           Feed("ics", 200, TRUE, <<Vevent(wReview), Vevent(wStandup)>>, TRUE) }

\* What a URL of APPLE_CALENDAR_ICS_URL can serve
PersonalFeeds ==
    { Feed("apple_calendar", 200, TRUE, doc, FALSE) : doc \in PersonalDocuments }
    \cup { Feed("apple_calendar", 500, TRUE, <<Vevent(pDentist), Vevent(pLunch)>>, FALSE),
           Feed("apple_calendar", 200, TRUE, <<Vevent(pDentist), Vevent(pLunch)>>, TRUE) }

\* The lists of at most n feeds of a set
RECURSIVE FeedLists(_, _)
FeedLists(S, n) ==
    IF n = 0 THEN { <<>> }
    ELSE FeedLists(S, n - 1)
         \cup { Append(l, f) : l \in { x \in FeedLists(S, n - 1) : Len(x) = n - 1 }, f \in S }

\* The configurations: the Outlook feed, if set, then the Apple feeds
FeedConfigurations ==
    { work \o personal : work \in FeedLists(WorkFeeds, 1),
                         personal \in FeedLists(PersonalFeeds, MaxAppleFeeds) }

\* The metadata row before the pass: as the schema inserts it, or as a pass
\* an hour earlier in which both categories went through left it
EarlierMetadata(now) ==
    { [last_ics_sync |-> NoDate, last_apple_sync |-> NoDate, updated_at |-> NoDate],
      [last_ics_sync |-> now - 3600, last_apple_sync |-> now - 3600,
       updated_at |-> now - 3600] }

SyncInit ==
    /\ syncNow \in SyncTimes
    /\ feeds \in FeedConfigurations
    /\ supabaseConfigured \in BOOLEAN
    /\ sync_metadata \in EarlierMetadata(syncNow)
    /\ lastSuccess = [ics |-> sync_metadata.last_ics_sync,
                      apple_calendar |-> sync_metadata.last_apple_sync]
    /\ results = <<>>
    /\ syncResponse = <<>>
    /\ batches = <<>>
    /\ appointments = {}
    /\ ignored_base_ids = {}
    /\ ignored_event_ids = {}
    /\ PERSONAL_REVEAL_PASSWORD = ""
    /\ revealCookie = ""
    /\ events = <<>>
    /\ ignoredBaseIds = {}
    /\ ignoredEventIds = {}
    /\ detectOverlap = FALSE
    /\ personalRevealed = FALSE
    /\ lastGet = NoResponse
    /\ passwordSupplied = FALSE
    /\ event = wReview
    /\ source = "ics"
    /\ runs = <<>>
    /\ NoLayout
    /\ NoMore

\* POST awaits syncIcsCalendar for the next configured feed and pushes its
\* result
SyncNextFeed ==
    /\ syncResponse = <<>>
    /\ Len(results) < Len(feeds)
    /\ \E outcome \in { SyncFeed(appointments, feeds[Len(results) + 1], supabaseConfigured,
                                  syncNow) } :
           /\ appointments' = outcome.appointments
           /\ results' = Append(results, outcome.result)
           /\ batches' = Append(batches, outcome.deduped)
           /\ lastSuccess' =
                  IF FeedLevelFailure(feeds[Len(results) + 1], outcome) THEN lastSuccess
                  ELSE [lastSuccess EXCEPT ![feeds[Len(results) + 1].source] = syncNow]
    /\ UNCHANGED <<expandVars, moreVars, ignoreTrail, layoutVars, ignored_base_ids, ignored_event_ids,
                   PERSONAL_REVEAL_PASSWORD, revealCookie, pageVars, lastGet,
                   passwordSupplied, feeds, supabaseConfigured, sync_metadata, syncResponse>>

\* All feeds synced: POST upserts the metadata row and answers; the proxy of
\* lib/supabase throws when the environment is not configured, and the catch
\* of POST answers 500
FinishSync ==
    /\ syncResponse = <<>>
    /\ Len(results) = Len(feeds)
    /\ IF supabaseConfigured
       THEN /\ sync_metadata' =
                  [ last_ics_sync   |-> IF outlookIcsUrl THEN syncNow ELSE NoDate,
                    last_apple_sync |-> IF appleIcsUrls THEN syncNow ELSE NoDate,
                    updated_at      |-> syncNow ]
            /\ syncResponse' = << [ status |-> 200, success |-> TRUE, results |-> results,
                                    errors |-> allErrors(results) ] >>
       ELSE /\ UNCHANGED sync_metadata
            /\ syncResponse' = << [ status |-> 500, success |-> FALSE, results |-> results,
                                    errors |-> <<"Sync failed">> ] >>
    /\ UNCHANGED <<expandVars, moreVars, ignoreTrail, layoutVars, readVars, feeds, supabaseConfigured, results,
                   batches, lastSuccess>>

SyncNext == SyncNextFeed \/ FinishSync

SpecSync == SyncInit /\ [][SyncNext]_vars

-----------------------------------------------------------------------------
(* Properties of the sync pass (checked under SpecSync) *)

\* The fetch was answered with a 2xx status
Answered2xx(feed) == feed.status >= 200 /\ feed.status <= 299

\* The feed was fetched and parsed: its loop over the VEVENTs ran
Fetched(feed) == Answered2xx(feed) /\ feed.parses

\* The occurrences the feed's VEVENTs expand to, in input order
InputOf(feed) == ExpandVevents(feed.vevents, feed.source, syncNow).events

SeqIds(rows) == { rows[i].id : i \in 1..Len(rows) }

\* C12: the batch a feed hands to the store contains each id at most once,
\* and for an id that occurs several times in the input the occurrence kept
\* is the last one in input order.
C12_DedupLastWins ==
    \A k \in 1..Len(batches) :
        Fetched(feeds[k]) =>
            LET input == InputOf(feeds[k])
                batch == batches[k]
            IN  /\ \A i, j \in 1..Len(batch) : i # j => batch[i].id # batch[j].id
                /\ SeqIds(batch) = SeqIds(input)
                /\ \A i \in 1..Len(batch) :
                       \E n \in 1..Len(input) :
                           /\ input[n] = batch[i]
                           /\ \A m \in (n + 1)..Len(input) : input[m].id # batch[i].id

\* C12 witness: a feed whose input carries one id twice under different
\* subjects was synced, and the store holds that id once, under the second
\* subject.
C12_Witness ==
    \E k \in 1..Len(batches) :
        LET input == InputOf(feeds[k])
        IN  /\ Fetched(feeds[k])
            /\ \E m, n \in 1..Len(input) :
                   /\ m < n
                   /\ input[m].id = input[n].id
                   /\ input[m].subject # input[n].subject
                   /\ \E row \in appointments :
                          row.id = input[n].id /\ row.subject = input[n].subject
                   /\ Cardinality({ row \in appointments : row.id = input[n].id }) = 1

\* Feed k of the pass failed as a feed: it was not fetched or not parsed,
\* or the write of its batch failed
FeedFailed(k) ==
    \/ ~Fetched(feeds[k])
    \/ batches[k] # <<>> /\ results[k].added = 0

\* C13: the answer of a sync pass reports overall success, the per-feed
\* errors embedded, whenever at least one configured feed did not fail, and
\* overall failure, each feed's error still itemized, exactly when every
\* configured feed failed.  (Stated of the passes with at least one feed
\* configured and the store's environment set.)
C13_SuccessUnlessAllFail ==
    (syncResponse # <<>> /\ Len(feeds) >= 1 /\ supabaseConfigured) =>
        /\ syncResponse[1].success <=> \E k \in 1..Len(feeds) : ~FeedFailed(k)
        /\ Len(syncResponse[1].results) = Len(feeds)
        /\ \A k \in 1..Len(feeds) :
               FeedFailed(k) => syncResponse[1].results[k].errors # <<>>

\* The well-formed VEVENTs of a feed, and the number of its malformed ones
WellFormed(feed) ==
    LET kept == SelectSeq(feed.vevents, LAMBDA v : ~v.malformed)
    IN  [i \in 1..Len(kept) |-> kept[i].event]

MalformedCount(feed) == Len(SelectSeq(feed.vevents, LAMBDA v : v.malformed))

\* C14: the failure of one feed (fetch error, unparseable document, store
\* write error) is recorded as that feed's diagnostic and every other
\* configured feed is still fetched, expanded and upserted; a malformed
\* event inside a feed is skipped with a diagnostic and the remaining events
\* of that feed are still processed.  (POST answers only once every feed
\* has its result; a feed that failed has an error in its result; the
\* occurrences of every well-formed event of a feed that was fetched, parsed
\* and written are in the store, whatever happened to the feeds before it.)
C14_FeedFailuresIsolated ==
    /\ syncResponse # <<>> => Len(results) = Len(feeds)
    /\ \A k \in 1..Len(results) :
           /\ FeedFailed(k) => results[k].errors # <<>>
           /\ Fetched(feeds[k]) =>
                  Len(SelectSeq(results[k].errors, LAMBDA e : e = "Failed to parse event"))
                      = MalformedCount(feeds[k])
           /\ (Fetched(feeds[k]) /\ ~feeds[k].writeFails /\ supabaseConfigured) =>
                  LET ids == SeqIds(EventsToUpsert(WellFormed(feeds[k]), feeds[k].source,
                                                   syncNow))
                  IN  /\ ids \subseteq { row.id : row \in appointments }
                      /\ results[k].added = Cardinality(ids)

\* C14 witness: POST has answered; a feed failed, and a feed after it with
\* a malformed event has the occurrences of its other events in the store.
C14_Witness ==
    /\ syncResponse # <<>>
    /\ \E j, k \in 1..Len(results) :
           /\ j < k
           /\ FeedFailed(j)
           /\ Fetched(feeds[k])
           /\ MalformedCount(feeds[k]) >= 1
           /\ results[k].added >= 1
           /\ \E row \in appointments : row.source = feeds[k].source

\* C15: every sync pass, whatever the outcome of its feeds, ends by updating
\* the sync metadata record (the store being reachable), and that update
\* happens only after all feeds have completed; the recorded per-feed
\* instant is the instant of that feed's last successful sync.  (The
\* instants are compared for the categories that are configured.)
C15_MetadataLastSuccess ==
    supabaseConfigured =>
        /\ syncResponse # <<>> => sync_metadata.updated_at = syncNow
        /\ sync_metadata.updated_at = syncNow => Len(results) = Len(feeds)
        /\ syncResponse # <<>> =>
               /\ outlookIcsUrl => sync_metadata.last_ics_sync = lastSuccess.ics
               /\ appleIcsUrls => sync_metadata.last_apple_sync = lastSuccess.apple_calendar

\* C16: when the fetch of a feed is answered with a non-2xx status,
\* syncIcsCalendar produces no occurrences for that feed: nothing is
\* upserted for it, the store's occurrences are unchanged by that feed, and
\* the feed's result carries an error.
C16_NonOkFetchWritesNothing ==
    [][ (/\ Len(results') = Len(results) + 1
         /\ feeds[Len(results')].status # FetchThrows
         /\ ~Answered2xx(feeds[Len(results')]))
            => /\ appointments' = appointments
               /\ batches'[Len(results')] = <<>>
               /\ results'[Len(results')].added = 0
               /\ results'[Len(results')].errors # <<>> ]_vars

\* C16 witness: a feed answered with a non-2xx status, with VEVENTs in its
\* body, was synced after a feed that stored occurrences.
C16_Witness ==
    \E k \in 2..Len(results) :
        /\ feeds[k].status # FetchThrows
        /\ ~Answered2xx(feeds[k])
        /\ feeds[k].vevents # <<>>
        /\ results[k].errors # <<>>
        /\ appointments # {}
        /\ \A row \in appointments : row.source # feeds[k].source

\* The ids feed k of the pass wrote to the store
Written(k) == IF results[k].added > 0 THEN SeqIds(batches[k]) ELSE {}

\* C20: within a sync pass no occurrence id is written by more than one
\* feed, so that the store's final contents are the same for every order
\* in which the feeds' batches are upserted.
C20_DisjointIdsAcrossFeeds ==
    \A j, k \in 1..Len(results) : j < k => Written(j) \cap Written(k) = {}

-----------------------------------------------------------------------------
(* Further properties of the expansion (checked under SpecExpand) *)

\* The subject contains one of the five placeholder phrases, letter case
\* aside
HasPlaceholderPhrase(subject) ==
    \E i \in 1..Len(STATUS_WORDS) :
        includes(toLowerCase(subject), toLowerCase(STATUS_WORDS[i]))

\* The definition's nominal start lies in the window of the sync
NominalStartInWindow ==
    /\ event.startDate # NoDate
    /\ event.startDate >= RangeStart(syncNow)
    /\ event.startDate <= RangeEnd(syncNow)

\* C17: the free/busy placeholder filter drops an occurrence only when the
\* feed is work-category, the subject case-insensitively contains one of the
\* five placeholder phrases and the span is at least 24 hours; an occurrence
\* from a personal feed, or a work occurrence shorter than 24 hours, is
\* never dropped by it.  (A definition whose nominal start lies in the
\* window has an occurrence there; where expandEvent returns none for it,
\* the filter dropped it.)
C17_PlaceholderFilterScope ==
    \A i \in 1..Len(runs) :
        (NominalStartInWindow /\ runs[i].results = <<>>) =>
            /\ source = "ics"
            /\ HasPlaceholderPhrase(event.summary)
            /\ event.endDate # NoDate
            /\ event.endDate - event.startDate >= 24 * 3600

\* C17 witness: expandEvent returned nothing for a work definition named
\* '[busy] offsite' that spans 24 hours and starts in the window.
C17_Witness ==
    /\ Len(runs) >= 1
    /\ runs[1].results = <<>>
    /\ NominalStartInWindow
    /\ source = "ics"
    /\ event.summary = <<"[","b","u","s","y","]"," ","o","f","f","s","i","t","e">>
    /\ event.endDate - event.startDate = 24 * 3600

\* Rule iteration throws before the loop of expandEvent has ended: some
\* call of next() throws, every call before it having returned an
\* occurrence that does not lie after the window
IterationThrows ==
    /\ event.recurring
    /\ \E k \in 1..(maxIterations + 1) :
           /\ IteratorThrows(event, k)
           /\ \A j \in 1..(k - 1) :
                  /\ IteratorNext(event, j) # NoDate
                  /\ IteratorNext(event, j) <= RangeEnd(syncNow)

\* C18: when recurrence-rule iteration throws during expandEvent, the error
\* is not propagated and the result for that definition is a single
\* occurrence at the definition's nominal start if that start is within the
\* window, and no occurrence otherwise.
C18_ThrowFallsBackToNominal ==
    \A i \in 1..Len(runs) :
        (IterationThrows /\ ~HasPlaceholderPhrase(event.summary)) =>
            IF NominalStartInWindow
            THEN /\ Len(runs[i].results) = 1
                 /\ runs[i].results[1].start_time = event.startDate
            ELSE runs[i].results = <<>>

-----------------------------------------------------------------------------
(* A further property of the routes (checked under SpecApi) *)

\* C19: adding or removing a series ignore or an occurrence ignore, and
\* reading events through GET /api/events, leave the stored occurrences
\* (appointments) unchanged.
C19_IgnoresLeaveAppointments ==
    [][appointments' = appointments]_vars

\* C19 witness: a series ignore and an occurrence ignore are stored, GET
\* /api/events has answered without an occurrence of the ignored series,
\* and that occurrence is still in the store.
C19_Witness ==
    /\ ignored_base_ids # {}
    /\ ignored_event_ids # {}
    /\ lastGet.status = 200
    /\ \E a \in appointments :
           /\ getBaseIdFromEventId(a.id) \in { r.base_id : r \in ignored_base_ids }
           /\ a.id \notin BodyIds(lastGet)
           /\ \E k \in 1..Len(lastGet.appointments) : lastGet.appointments[k] = a


-----------------------------------------------------------------------------
(* The store over several sync passes: what a feed URL serves changes from  *)
(* one pass to the next, and HTTP clients use the routes in between.        *)

MaxPasses == 2

\* The for loop of syncIcsCalendar over the VEVENTs of a document that was
\* fetched and parsed, none malformed: rangeNow is the reading of the clock
\* the window is computed from, now the later reading createEventRecord
\* stamps the records with
RECURSIVE ExpandDocument(_, _, _, _)
ExpandDocument(vevents, src, rangeNow, now) ==
    IF vevents = <<>> THEN <<>>
    ELSE expandEvent(Head(vevents), RangeStart(rangeNow), RangeEnd(rangeNow), src, now)
         \o ExpandDocument(Tail(vevents), src, rangeNow, now)

\* The appointments table after such a pass of syncIcsCalendar
SyncDocument(table, vevents, src, rangeNow, now) ==
    LET eventsToUpsert == ExpandDocument(vevents, src, rangeNow, now)
    IN  IF Len(eventsToUpsert) > 0
        THEN UpsertAppointments(table, DedupedEvents(eventsToUpsert))
        ELSE table

\* The review moved by an hour
wReviewMoved == MakeEvent(<<"w","1">>, Review, Day0 + 41400, 3600, NoDuration, FALSE,
                          NotRecurring)
\* A review without a UID
wReviewNoUid == MakeEvent(<<>>, Review, Day0 + 37800, 3600, NoDuration, FALSE, NotRecurring)

\* What OUTLOOK_ICS_URL serves at one time or another
Snapshots ==
    { <<wReview>>, <<wReviewMoved>>, <<wReviewNoUid>> }

StoreInit ==
    /\ syncNow \in SyncTimes
    /\ appointments = {}
    /\ ignored_base_ids = {}
    /\ ignored_event_ids = {}
    /\ PERSONAL_REVEAL_PASSWORD = "pw"
    /\ revealCookie = ""
    /\ events = <<>>
    /\ ignoredBaseIds = {}
    /\ ignoredEventIds = {}
    /\ detectOverlap = FALSE
    /\ personalRevealed = FALSE
    /\ lastGet = NoResponse
    /\ passwordSupplied = FALSE
    /\ event = wReview
    /\ source = "ics"
    /\ runs = <<>>
    /\ NoSync
    /\ NoLayout
    /\ NoView
    /\ NoAuth
    /\ NoRecovery
    /\ NoPass
    /\ ignoreTrail = <<>>

\* The number of passes made so far
PassNumber == IF lastPass = <<>> THEN 0 ELSE lastPass[1].number

\* One pass of syncIcsCalendar over what the URL serves now; the window is
\* the one computed at syncNow, the records are stamped with a reading of
\* the clock, which does not run backwards
SyncPass ==
    \E snapshot \in Snapshots, now \in ClockReadings(syncNow) :
        /\ now >= clock
        /\ PassNumber < MaxPasses
        /\ appointments' = SyncDocument(appointments, snapshot, "ics", syncNow, now)
        /\ clock' = now
        /\ lastPass' = << [ number   |-> PassNumber + 1,
                            snapshot |-> snapshot,
                            before   |-> appointments,
                            repeated |-> lastPass # <<>> /\ lastPass[1].snapshot = snapshot ] >>
        /\ lastGet' = NoResponse
        /\ ignoreTrail' = <<>>
        /\ UNCHANGED <<expandVars, syncVars, layoutVars, viewVars, authVars, recoveryVars,
                       ignored_base_ids, ignored_event_ids, PERSONAL_REVEAL_PASSWORD,
                       revealCookie, pageVars, passwordSupplied>>

\* Sync passes, the series ignores, the reveal route, and the page reading
\* the events
StoreNext ==
    \/ SyncPass
    \/ PostIgnoredBaseIdRequest
    \/ DeleteIgnoredBaseIdRequest
    \/ PostPersonalRevealRequest
    \/ DeletePersonalRevealRequest
    \/ RevealCookieExpires
    \/ GetEventsFromBrowser

SpecStore == StoreInit /\ [][StoreNext]_vars

-----------------------------------------------------------------------------
(* Properties of the store over several passes (checked under SpecStore) *)

StoredIds(table) == { r.id : r \in table }

\* C21: after any sequence of sync passes the store holds at most one
\* occurrence per id, and a pass that syncs the snapshot of the pass before
\* again, with the same window, leaves the set of stored ids and every
\* stored field but the last-updated timestamp as they were.
C21_ResyncInPlace ==
    /\ \A a, b \in appointments : a.id = b.id => a = b
    /\ (lastPass # <<>> /\ lastPass[1].repeated) =>
           { WithoutUpdatedAt(r) : r \in appointments }
               = { WithoutUpdatedAt(r) : r \in lastPass[1].before }

\* (C21, the part the code keeps: the same of a snapshot whose VEVENTs all
\* carry a UID.)
C21_ResyncInPlaceWithUid ==
    /\ \A a, b \in appointments : a.id = b.id => a = b
    /\ ( /\ lastPass # <<>>
         /\ lastPass[1].repeated
         /\ \A k \in 1..Len(lastPass[1].snapshot) : lastPass[1].snapshot[k].uid # <<>> ) =>
           { WithoutUpdatedAt(r) : r \in appointments }
               = { WithoutUpdatedAt(r) : r \in lastPass[1].before }


-----------------------------------------------------------------------------
(* More properties of the expansion (checked under SpecExpand) *)

\* The number of candidates the loop can look at: those the iterator yields
\* among its first maxIterations calls
CandidateCount ==
    IF event.startDate = NoDate THEN 0
    ELSE IF event.count = Unbounded \/ event.count > maxIterations THEN maxIterations
    ELSE event.count

\* The candidates among them that lie within the window, in iteration order
CandidatesInWindow ==
    SelectSeq([k \in 1..CandidateCount |-> IteratorNext(event, k)],
              LAMBDA t : t >= RangeStart(syncNow) /\ t <= RangeEnd(syncNow))

StartsOf(records) == [k \in 1..Len(records) |-> records[k].start_time]

\* No call of the iterator the loop makes throws
IteratorNeverThrows ==
    /\ event.startDate # NoDate
    /\ event.throwAt = NeverThrows \/ event.throwAt > maxIterations + 1

-----------------------------------------------------------------------------
(* The view of the calendar page: the view mode, the reveal modal, and the  *)
(* three requests to /api/personal-reveal, each of which the server answers *)
(* when it is sent and whose answer reaches the page later.  A handler that *)
(* continues after its await sees the state of the render it was created    *)
(* in.  statusCheck is "none" before the page is mounted, "sent", then what *)
(* the server answered ("revealed", "masked", "error"), then "done".        *)

ViewModes == {"day", "week", "4week"}

ViewInit ==
    /\ syncNow \in SyncTimes
    /\ appointments = {}
    /\ ignored_base_ids = {}
    /\ ignored_event_ids = {}
    /\ PERSONAL_REVEAL_PASSWORD \in RevealPasswords
    /\ revealCookie \in {"", "revealed"}
    /\ passwordSupplied = (revealCookie = "revealed")
    /\ events = <<>>
    /\ ignoredBaseIds = {}
    /\ ignoredEventIds = {}
    /\ detectOverlap = FALSE
    /\ personalRevealed = FALSE
    /\ lastGet = NoResponse
    /\ event = wReview
    /\ source = "ics"
    /\ runs = <<>>
    /\ NoSync
    /\ NoLayout
    /\ NoView
    /\ NoAuth
    /\ NoRecovery
    /\ NoPass
    /\ ignoreTrail = <<>>

\* The mount effect: the default view mode of the screen, the fetches of
\* the events and the ignore lists, and checkPersonalRevealStatus, whose
\* GET /api/personal-reveal the server answers from the cookie
MountView ==
    /\ statusCheck = "none"
    /\ \E mode \in {"day", "week"}, answered \in BOOLEAN :
          LET response == fetchEvents(revealCookie, "none", ignored_base_ids,
                                      ignored_event_ids)
          IN  /\ viewMode' = mode
              /\ events' = EventsOf(response)
              /\ lastGet' = response
              /\ ignoredBaseIds' = FetchedBaseIds(ignored_base_ids, "none")
              /\ ignoredEventIds' = FetchedEventIds(ignored_event_ids, "none")
              /\ statusCheck' = IF ~answered THEN "error"
                                ELSE IF GetPersonalReveal(revealCookie) THEN "revealed"
                                ELSE "masked"
    /\ UNCHANGED <<expandVars, syncVars, layoutVars, authVars, recoveryVars, passVars,
                   ignoreTrail, storeVars, PERSONAL_REVEAL_PASSWORD, revealCookie,
                   detectOverlap, personalRevealed, passwordSupplied, pendingViewMode,
                   showRevealModal, canRevealPersonal, revealSubmit, hideRequest>>

\* checkPersonalRevealStatus after its await: the answer reaches the page
checkPersonalRevealStatus ==
    /\ statusCheck \in {"revealed", "masked", "error"}
    /\ IF statusCheck = "error"
       THEN /\ canRevealPersonal' = FALSE
            /\ UNCHANGED personalRevealed
       ELSE /\ personalRevealed' = (statusCheck = "revealed")
            /\ canRevealPersonal' =
                   IF statusCheck = "revealed" THEN TRUE ELSE PERSONAL_REVEAL_PASSWORD # ""
    /\ statusCheck' = "done"
    /\ UNCHANGED <<expandVars, syncVars, layoutVars, authVars, recoveryVars, passVars,
                   ignoreTrail, storeVars, PERSONAL_REVEAL_PASSWORD, revealCookie, events,
                   ignoredBaseIds, ignoredEventIds, detectOverlap, lastGet,
                   passwordSupplied, viewMode, pendingViewMode, showRevealModal,
                   revealSubmit, hideRequest>>

\* handleViewModeChange(mode), from the view-mode buttons
handleViewModeChange ==
    /\ statusCheck # "none"
    /\ \E mode \in ViewModes :
          IF mode = "4week" /\ ~personalRevealed
          THEN /\ pendingViewMode' = "4week"
               /\ showRevealModal' = TRUE
               /\ UNCHANGED viewMode
          ELSE /\ viewMode' = mode
               /\ UNCHANGED <<pendingViewMode, showRevealModal>>
    /\ UNCHANGED <<expandVars, syncVars, layoutVars, authVars, recoveryVars, passVars,
                   ignoreTrail, readVars, canRevealPersonal, statusCheck, revealSubmit,
                   hideRequest>>

\* The reveal toggle of the toolbar while the personal events are masked
OpenRevealModal ==
    /\ statusCheck # "none"
    /\ ~personalRevealed
    /\ canRevealPersonal
    /\ showRevealModal' = TRUE
    /\ UNCHANGED <<expandVars, syncVars, layoutVars, authVars, recoveryVars, passVars,
                   ignoreTrail, readVars, viewMode, pendingViewMode, canRevealPersonal,
                   statusCheck, revealSubmit, hideRequest>>

\* Escape, the close button or Cancel of the reveal modal
CloseRevealModal ==
    /\ showRevealModal
    /\ showRevealModal' = FALSE
    /\ pendingViewMode' = ""
    /\ UNCHANGED <<expandVars, syncVars, layoutVars, authVars, recoveryVars, passVars,
                   ignoreTrail, readVars, viewMode, canRevealPersonal, statusCheck,
                   revealSubmit, hideRequest>>

\* handleRevealSubmit up to its await: POST /api/personal-reveal, which the
\* server answers; the browser stores the cookie of a 200.  The submit
\* button is disabled while a submission is under way.
handleRevealSubmitSends ==
    /\ showRevealModal
    /\ revealSubmit = <<>>
    /\ \E password \in PasswordsTried :
          LET status == PostPersonalReveal(password, PERSONAL_REVEAL_PASSWORD)
          IN  /\ revealSubmit' = << [status |-> status, pendingViewMode |-> pendingViewMode] >>
              /\ IF status = 200
                 THEN revealCookie' = "revealed" /\ passwordSupplied' = TRUE
                 ELSE UNCHANGED <<revealCookie, passwordSupplied>>
    /\ UNCHANGED <<expandVars, syncVars, layoutVars, authVars, recoveryVars, passVars,
                   ignoreTrail, storeVars, PERSONAL_REVEAL_PASSWORD, pageVars, lastGet,
                   viewMode, pendingViewMode, showRevealModal, canRevealPersonal,
                   statusCheck, hideRequest>>

\* handleRevealSubmit after its await
handleRevealSubmit ==
    /\ revealSubmit # <<>>
    /\ revealSubmit' = <<>>
    /\ IF revealSubmit[1].status = 200
       THEN LET response == fetchEvents(revealCookie, "none", ignored_base_ids,
                                        ignored_event_ids)
            IN  /\ personalRevealed' = TRUE
                /\ showRevealModal' = FALSE
                /\ IF revealSubmit[1].pendingViewMode = "4week"
                   THEN viewMode' = "4week" /\ pendingViewMode' = ""
                   ELSE UNCHANGED <<viewMode, pendingViewMode>>
                /\ events' = EventsOf(response)
                /\ lastGet' = response
       ELSE UNCHANGED <<personalRevealed, showRevealModal, viewMode, pendingViewMode, events,
                        lastGet>>
    /\ UNCHANGED <<expandVars, syncVars, layoutVars, authVars, recoveryVars, passVars,
                   ignoreTrail, storeVars, PERSONAL_REVEAL_PASSWORD, revealCookie,
                   ignoredBaseIds, ignoredEventIds, detectOverlap, passwordSupplied,
                   canRevealPersonal, statusCheck, hideRequest>>

\* handleHidePersonal up to its await, from the reveal toggle while the
\* personal events are revealed: DELETE /api/personal-reveal, which clears
\* the cookie unless the request fails
handleHidePersonalSends ==
    /\ personalRevealed
    /\ hideRequest = <<>>
    /\ \E ok \in BOOLEAN :
          /\ hideRequest' = << [ok |-> ok, viewMode |-> viewMode] >>
          /\ IF ok
             THEN revealCookie' = "" /\ passwordSupplied' = FALSE
             ELSE UNCHANGED <<revealCookie, passwordSupplied>>
    /\ UNCHANGED <<expandVars, syncVars, layoutVars, authVars, recoveryVars, passVars,
                   ignoreTrail, storeVars, PERSONAL_REVEAL_PASSWORD, pageVars, lastGet,
                   viewMode, pendingViewMode, showRevealModal, canRevealPersonal,
                   statusCheck, revealSubmit>>

\* handleHidePersonal after its await
handleHidePersonal ==
    /\ hideRequest # <<>>
    /\ hideRequest' = <<>>
    /\ IF hideRequest[1].ok
       THEN LET response == fetchEvents(revealCookie, "none", ignored_base_ids,
                                        ignored_event_ids)
            IN  /\ personalRevealed' = FALSE
                /\ IF hideRequest[1].viewMode = "4week"
                   THEN viewMode' = "week"
                   ELSE UNCHANGED viewMode
                /\ events' = EventsOf(response)
                /\ lastGet' = response
       ELSE UNCHANGED <<personalRevealed, viewMode, events, lastGet>>
    /\ UNCHANGED <<expandVars, syncVars, layoutVars, authVars, recoveryVars, passVars,
                   ignoreTrail, storeVars, PERSONAL_REVEAL_PASSWORD, revealCookie,
                   ignoredBaseIds, ignoredEventIds, detectOverlap, passwordSupplied,
                   pendingViewMode, showRevealModal, canRevealPersonal, statusCheck,
                   revealSubmit>>

ViewNext ==
    \/ MountView
    \/ checkPersonalRevealStatus
    \/ handleViewModeChange
    \/ OpenRevealModal
    \/ CloseRevealModal
    \/ handleRevealSubmitSends
    \/ handleRevealSubmit
    \/ handleHidePersonalSends
    \/ handleHidePersonal

SpecView == ViewInit /\ [][ViewNext]_vars

-----------------------------------------------------------------------------
(* Properties of the view (checked under SpecView) *)

\* C23: in every reachable state of the page viewMode is '4week' only while
\* personalRevealed is true, under any interleaving of view-mode clicks,
\* reveal submission, hide-personal and the reveal-status check, whose
\* answers may arrive late.
C23_FourWeekOnlyWhileRevealed ==
    viewMode = "4week" => personalRevealed


-----------------------------------------------------------------------------
(* The login gate: middleware.ts and app/api/auth/route.ts.  authCookie is  *)
(* the cookie lifesynced_auth the browser holds, <<>> when it holds none,   *)
(* else its value and the maxAge it was last set with; routed is the last   *)
(* request and what became of it.                                           *)

AuthMaxAge == 60 * 60 * 24 * 30
RollingMaxAge == 60 * 60 * 24 * 2

\* String.prototype.startsWith
startsWith(s, prefix) ==
    Len(s) >= Len(prefix) /\ SubSeq(s, 1, Len(prefix)) = prefix

LoginPath == <<"/","l","o","g","i","n">>
ApiPrefix == <<"/","a","p","i","/">>

\* config.matcher: '/((?!_next/static|_next/image|favicon.ico|.*\\..*|api/).*)'
matcher(pathname) ==
    /\ startsWith(pathname, <<"/">>)
    /\ LET rest == SubSeq(pathname, 2, Len(pathname)) IN
         /\ ~startsWith(rest, <<"_","n","e","x","t","/","s","t","a","t","i","c">>)
         /\ ~startsWith(rest, <<"_","n","e","x","t","/","i","m","a","g","e">>)
         /\ ~(Len(rest) >= 11 /\ SubSeq(rest, 1, 7) = <<"f","a","v","i","c","o","n">>
                              /\ SubSeq(rest, 9, 11) = <<"i","c","o">>)
         /\ ~includes(rest, <<".">>)
         /\ ~startsWith(rest, <<"a","p","i","/">>)

\* The paths requested
Pathnames ==
    { <<"/">>,
      LoginPath,
      <<"/","w","e","e","k">>,
      <<"/","d","a","y">>,
      <<"/","a","b","o","u","t">>,
      <<"/","_","n","e","x","t","/","i","m","a","g","e">>,
      <<"/","a","p","i","/","e","v","e","n","t","s">>,
      <<"/","a","p","i","/","a","u","t","h">>,
      <<"/","d","a","t","a",".","j","s","o","n">>,
      <<"/","f","a","v","i","c","o","n",".","i","c","o">>,
      <<"/","_","n","e","x","t","/","s","t","a","t","i","c","/","a">> }

AppPasswords == {"", "pw"}
NoRedirect == <<"-">>

\* request.cookies.get('lifesynced_auth')?.value === 'authenticated'
CarriesAuthCookie(cookie) ==
    cookie # <<>> /\ cookie[1].value = "authenticated"

\* (a middleware that passes a request through without setting the cookie)
middleware_NoRefresh(pathname, cookie) ==
    IF pathname = LoginPath \/ startsWith(pathname, ApiPrefix)
    THEN [ outcome |-> "next", redirect |-> NoRedirect, setCookie |-> <<>> ]
    ELSE IF ~CarriesAuthCookie(cookie)
    THEN [ outcome |-> "login", redirect |-> pathname, setCookie |-> <<>> ]
    ELSE [ outcome |-> "next", redirect |-> NoRedirect, setCookie |-> <<>> ]

\* middleware(request): what it answers and the cookie it sets, <<>> if none
middleware(pathname, cookie) ==
    IF pathname = LoginPath \/ startsWith(pathname, ApiPrefix)
    THEN [ outcome |-> "next", redirect |-> NoRedirect, setCookie |-> <<>> ]
    ELSE IF ~CarriesAuthCookie(cookie)
    THEN [ outcome |-> "login", redirect |-> pathname, setCookie |-> <<>> ]
    ELSE [ outcome |-> "next", redirect |-> NoRedirect,
           setCookie |-> << [value |-> "authenticated", maxAge |-> RollingMaxAge] >> ]

\* POST /api/auth: the status and the cookie it sets, <<>> if none.  A body
\* that is not JSON makes request.json() throw.
PostAuth(body, correctPassword) ==
    IF body = "malformed"
    THEN [ status |-> 400, setCookie |-> <<>> ]
    ELSE IF correctPassword = ""
    THEN [ status |-> 200,
           setCookie |-> << [value |-> "authenticated", maxAge |-> AuthMaxAge] >> ]
    ELSE IF body = correctPassword
    THEN [ status |-> 200,
           setCookie |-> << [value |-> "authenticated", maxAge |-> AuthMaxAge] >> ]
    ELSE [ status |-> 401, setCookie |-> <<>> ]

AuthInit ==
    /\ syncNow \in SyncTimes
    /\ appointments = {}
    /\ ignored_base_ids = {}
    /\ ignored_event_ids = {}
    /\ PERSONAL_REVEAL_PASSWORD = ""
    /\ revealCookie = ""
    /\ passwordSupplied = FALSE
    /\ events = <<>>
    /\ ignoredBaseIds = {}
    /\ ignoredEventIds = {}
    /\ detectOverlap = FALSE
    /\ personalRevealed = FALSE
    /\ lastGet = NoResponse
    /\ event = wReview
    /\ source = "ics"
    /\ runs = <<>>
    /\ NoSync
    /\ NoLayout
    /\ NoView
    /\ APP_PASSWORD \in AppPasswords
    /\ authCookie = <<>>
    /\ routed = <<>>
    /\ NoRecovery
    /\ NoPass
    /\ ignoreTrail = <<>>

\* A request of the browser for a page or a file: the middleware runs on
\* the paths the matcher selects, the others reach the application as they
\* are; the browser stores the cookie of the answer
PageRequest ==
    \E pathname \in Pathnames :
        /\ pathname # <<"/","a","p","i","/","a","u","t","h">>
        /\ IF matcher(pathname)
           THEN LET answer == middleware(pathname, authCookie) IN
                /\ routed' = << [ handler |-> "middleware", pathname |-> pathname,
                                  carried |-> CarriesAuthCookie(authCookie),
                                  outcome |-> answer.outcome, redirect |-> answer.redirect,
                                  status |-> IF answer.outcome = "login" THEN 307 ELSE 200 ] >>
                /\ authCookie' = IF answer.setCookie # <<>> THEN answer.setCookie
                                 ELSE authCookie
           ELSE /\ routed' = << [ handler |-> "none", pathname |-> pathname,
                                  carried |-> CarriesAuthCookie(authCookie),
                                  outcome |-> "next", redirect |-> NoRedirect,
                                  status |-> 200 ] >>
                /\ UNCHANGED authCookie
        /\ UNCHANGED <<expandVars, readVars, syncVars, layoutVars, viewVars, recoveryVars,
                       passVars, ignoreTrail, APP_PASSWORD>>

\* POST /api/auth, from the login page
PostAuthRequest ==
    \E body \in PasswordsTried \cup {"malformed"} :
        LET answer == PostAuth(body, APP_PASSWORD) IN
        /\ routed' = << [ handler |-> "POST /api/auth",
                          pathname |-> <<"/","a","p","i","/","a","u","t","h">>,
                          carried |-> CarriesAuthCookie(authCookie),
                          outcome |-> body, redirect |-> NoRedirect,
                          status |-> answer.status ] >>
        /\ authCookie' = IF answer.setCookie # <<>> THEN answer.setCookie ELSE authCookie
        /\ UNCHANGED <<expandVars, readVars, syncVars, layoutVars, viewVars, recoveryVars,
                       passVars, ignoreTrail, APP_PASSWORD>>

\* DELETE /api/auth: logout
DeleteAuthRequest ==
    /\ routed' = << [ handler |-> "DELETE /api/auth",
                      pathname |-> <<"/","a","p","i","/","a","u","t","h">>,
                      carried |-> CarriesAuthCookie(authCookie),
                      outcome |-> "next", redirect |-> NoRedirect, status |-> 200 ] >>
    /\ authCookie' = <<>>
    /\ UNCHANGED <<expandVars, readVars, syncVars, layoutVars, viewVars, recoveryVars,
                   passVars, ignoreTrail, APP_PASSWORD>>

\* The cookie outlives its maxAge and the browser drops it
AuthCookieExpires ==
    /\ authCookie # <<>>
    /\ authCookie' = <<>>
    /\ UNCHANGED <<expandVars, readVars, syncVars, layoutVars, viewVars, recoveryVars,
                   passVars, ignoreTrail, APP_PASSWORD, routed>>

AuthNext ==
    \/ PageRequest
    \/ PostAuthRequest
    \/ DeleteAuthRequest
    \/ AuthCookieExpires

SpecAuth == AuthInit /\ [][AuthNext]_vars

-----------------------------------------------------------------------------
(* Properties of the login gate (checked under SpecAuth) *)

GatedPath(pathname) ==
    pathname # LoginPath /\ ~startsWith(pathname, ApiPrefix)

\* (the first half of C24 as stated, for every request)
UnauthenticatedNeverPassed ==
    \A i \in 1..Len(routed) :
        (GatedPath(routed[i].pathname) /\ ~routed[i].carried)
            => /\ routed[i].outcome = "login"
               /\ routed[i].redirect = routed[i].pathname

\* (the first half of C24 for the requests the matcher hands to the middleware)
UnauthenticatedNeverPassedByMiddleware ==
    \A i \in 1..Len(routed) :
        (routed[i].handler = "middleware" /\ GatedPath(routed[i].pathname)
            /\ ~routed[i].carried)
            => /\ routed[i].outcome = "login"
               /\ routed[i].redirect = routed[i].pathname

\* (the answer of POST /api/auth to a wrong password while one is configured)
WrongPasswordRefused ==
    \A i \in 1..Len(routed) :
        (routed[i].handler = "POST /api/auth" /\ APP_PASSWORD # ""
            /\ routed[i].outcome # APP_PASSWORD)
            => routed[i].status \in {400, 401}

-----------------------------------------------------------------------------
(* More properties of the layout (checked under SpecLayout) *)

\* The groups of calculateEventLayout for the rendered day, once both loops
\* have run
LayoutGroups ==
    LET groups == AssignColumns(SortSlots(Slots(dayEvents, timezone, hourCycle)), <<>>)
    IN  [ g \in 1..Len(groups) |-> WithTotalColumns(groups[g]) ]

\* The largest column index of a group
MaxColumn(group) ==
    CHOOSE c \in { group[i].column : i \in 1..Len(group) } :
        \A i \in 1..Len(group) : group[i].column <= c

\* C25: after calculateEventLayout all slots of one overlap group carry the
\* same totalColumns, the largest column index of the group plus one; every
\* slot has 0 <= column < totalColumns, and left + width <= 100%.
C25_TotalColumnsPerGroup ==
    /\ \A g \in 1..Len(LayoutGroups) :
          \A i \in 1..Len(LayoutGroups[g]) :
              LET slot == LayoutGroups[g][i] IN
              /\ slot.totalColumns = MaxColumn(LayoutGroups[g]) + 1
              /\ 0 <= slot.column
              /\ slot.column < slot.totalColumns
    /\ \A id \in DOMAIN layout :
          /\ layout[id].left[2] = layout[id].width[2]
          /\ layout[id].left[1] + layout[id].width[1] <= 100 * layout[id].width[2]

\* A rendered day with a group of three slots in two columns
C25_Witness ==
    /\ layout # <<>>
    /\ \E g \in 1..Len(LayoutGroups) :
          /\ Len(LayoutGroups[g]) = 3
          /\ \A i \in 1..3 : LayoutGroups[g][i].totalColumns = 2
          /\ \E i \in 1..3 : LayoutGroups[g][i].column = 1

\* C26: calculateEventLayout never gives the same column to two slots whose
\* clamped hour ranges intersect (a.start < b.end and a.end > b.start),
\* whichever group each was placed in, zero-length slots and slots whose
\* end hour is below their start hour included.
C26_IntersectingSlotsApart ==
    \A g, h \in 1..Len(LayoutGroups) :
        \A i \in 1..Len(LayoutGroups[g]), j \in 1..Len(LayoutGroups[h]) :
            LET a == LayoutGroups[g][i]
                b == LayoutGroups[h][j]
            IN  (<<g, i>> # <<h, j>> /\ a.startHour < b.endHour /\ a.endHour > b.startHour)
                    => a.column # b.column

\* A rendered day with a slot whose end is below its start, a zero-length
\* slot, and a third slot that intersects both
C26_Witness ==
    /\ layout # <<>>
    /\ \E g, h, k \in 1..Len(LayoutGroups) :
          \E i \in 1..Len(LayoutGroups[g]), j \in 1..Len(LayoutGroups[h]),
             l \in 1..Len(LayoutGroups[k]) :
              LET a == LayoutGroups[g][i]
                  b == LayoutGroups[h][j]
                  c == LayoutGroups[k][l]
              IN  /\ a.endHour < a.startHour
                  /\ b.endHour = b.startHour
                  /\ c.startHour < c.endHour
                  /\ SlotsOverlap(a, c)
                  /\ SlotsOverlap(b, c)
                  /\ a.column # c.column
                  /\ b.column # c.column


-----------------------------------------------------------------------------
(* More properties of the read path (checked under SpecApi).  lastGet is    *)
(* the answer to the last GET /api/events since the tables last changed.    *)

\* C27: no answer of GET /api/events contains an occurrence whose id is in
\* the persisted ignored-occurrence list or whose recovered base id is in the
\* persisted ignored-series list at the time of the request, also when
\* reading one of the ignore lists from the store fails.
C27_NoIgnoredInBody ==
    lastGet.status = 200 =>
        \A id \in BodyIds(lastGet) :
            /\ id \notin { r.event_id : r \in ignored_event_ids }
            /\ getBaseIdFromEventId(id) \notin { r.base_id : r \in ignored_base_ids }


-----------------------------------------------------------------------------
(* Base-id recovery on the server and on the page: the two functions named  *)
(* getBaseIdFromEventId applied to one id string.  occurrenceId is the id,  *)
(* recovered what the two made of it.                                        *)

\* What an id is made of: a UID, which a feed is free to choose, and what
\* follows its last '_'
UidTexts ==
    { <<>>,
      <<"a">>,
      <<"w","1">>,
      <<"w","1","_","b">>,
      <<"t","r","i","p">>,
      <<"x","_","y","_","z">>,
      <<"u","n","k","n","o","w","n","_","1","7","3","5","7","3","2","8","0","0","0","0","0">>,
      <<"2","0","2","5","0","1","0","1">>,
      <<"a","_","2","0","2","5","0","1","0","1","T","1","0","0","0","0","0">>,
      <<"p","-","1","@","e","x","a","m","p","l","e",".","c","o","m">>,
      <<"A">>,
      <<"_">> }

LastParts ==
    { <<>>,
      <<"_","2","0","2","5","0","1","0","1","T","1","0","0","0","0","0">>,
      <<"_","2","0","2","5","0","1","0","1">>,
      <<"_","2","0","2","5","0","1","0">>,
      <<"_","2","0","2","5","0","1","0","1","1">>,
      <<"_","2","0","2","5","0","1","0","1","T","1","0","0","0","0">>,
      <<"_","2","0","2","5","0","1","0","1","T","1","0","0","0","0","0","0">>,
      <<"_","2","0","2","5","0","1","0","1","t","1","0","0","0","0","0">>,
      <<"_","2","0","2","5","0","1","0","a","T","1","0","0","0","0","0">>,
      <<"_">>,
      <<"_","x">>,
      <<"_","2","0","2","5","0","1","0","1","T">>,
      <<"_","T","1","0","0","0","0","0">> }

OccurrenceIds == { uid \o last : uid \in UidTexts, last \in LastParts }

RecoveryInit ==
    /\ syncNow \in SyncTimes
    /\ appointments = {}
    /\ ignored_base_ids = {}
    /\ ignored_event_ids = {}
    /\ PERSONAL_REVEAL_PASSWORD = ""
    /\ revealCookie = ""
    /\ passwordSupplied = FALSE
    /\ events = <<>>
    /\ ignoredBaseIds = {}
    /\ ignoredEventIds = {}
    /\ detectOverlap = FALSE
    /\ personalRevealed = FALSE
    /\ lastGet = NoResponse
    /\ event = wReview
    /\ source = "ics"
    /\ runs = <<>>
    /\ NoSync
    /\ NoLayout
    /\ NoView
    /\ NoAuth
    /\ NoRecovery
    /\ NoPass
    /\ ignoreTrail = <<>>

\* The server filters an occurrence by its base id, the page ignores its
\* series by its base id
RecoverBaseId ==
    \E id \in OccurrenceIds :
        /\ occurrenceId' = id
        /\ recovered' = << [ server |-> getBaseIdFromEventId(id),
                             page   |-> pageGetBaseIdFromEventId(id) ] >>
        /\ UNCHANGED <<expandVars, readVars, syncVars, layoutVars, viewVars, authVars,
                       passVars, ignoreTrail>>

RecoveryNext == RecoverBaseId

SpecRecovery == RecoveryInit /\ [][RecoveryNext]_vars

-----------------------------------------------------------------------------
(* Properties of the base-id recovery (checked under SpecRecovery) *)

-----------------------------------------------------------------------------
(* More properties of the store (checked under SpecStore) *)

\* C29: no operation (a sync pass, adding or removing an ignore, reading
\* the events, the reveal) removes a stored occurrence: in every step the
\* set of stored occurrence ids only grows, so an occurrence that is gone
\* from the feed stays stored under its old id.
C29_StoredIdsOnlyGrow ==
    [][ StoredIds(appointments) \subseteq StoredIds(appointments') ]_vars

\* A second pass over a document that no longer holds the occurrence of
\* the first left that occurrence stored and added its own
C29_Witness ==
    /\ lastPass # <<>>
    /\ lastPass[1].number = 2
    /\ ~lastPass[1].repeated
    /\ \E r \in lastPass[1].before :
          /\ r.id \in StoredIds(appointments)
          /\ r.id \notin StoredIds(SyncDocument({}, lastPass[1].snapshot, "ics", syncNow, clock))
    /\ StoredIds(appointments) # StoredIds(lastPass[1].before)


-----------------------------------------------------------------------------
(* The ignore lists as sets keyed by id (checked under SpecApi).            *)
(* ignoreTrail holds the ignore added last, with the two lists as they were *)
(* before it was added, and whether it was removed again right after; a     *)
(* sync pass or another ignore in between ends the trail.                   *)

BaseIdKeys(table) == { r.base_id : r \in table }
EventIdKeys(table) == { r.event_id : r \in table }

\* The ids a client may name
IgnorableBaseIds == { getBaseIdFromEventId(a.id) : a \in appointments } \cup {<<"n","o","n","e">>}
IgnorableEventIds == { a.id : a \in appointments } \cup {<<"n","o","n","e">>}

\* Each list holds one entry per id, and adding an id again leaves one
OneEntryPerId ==
    /\ \A a, b \in ignored_base_ids : a.base_id = b.base_id => a = b
    /\ \A a, b \in ignored_event_ids : a.event_id = b.event_id => a = b
    /\ \A id \in IgnorableBaseIds :
          Cardinality({ r \in PostIgnoredBaseId(PostIgnoredBaseId(ignored_base_ids, id, <<>>, clock),
                                               id, <<>>, clock + 1) : r.base_id = id }) = 1
    /\ \A id \in IgnorableEventIds :
          Cardinality({ r \in PostIgnoredEventId(
                                  PostIgnoredEventId(ignored_event_ids, id, <<>>, NoDate, clock),
                                  id, <<>>, NoDate, clock + 1) : r.event_id = id }) = 1

\* Removing an id that is in neither list changes nothing
RemoveAbsentChangesNothing ==
    /\ \A id \in IgnorableBaseIds \ BaseIdKeys(ignored_base_ids) :
          DeleteIgnoredBaseId(ignored_base_ids, id) = ignored_base_ids
    /\ \A id \in IgnorableEventIds \ EventIdKeys(ignored_event_ids) :
          DeleteIgnoredEventId(ignored_event_ids, id) = ignored_event_ids

\* GET /api/events answers every request now as it would with the lists as
\* they were before the ignore of the trail was added
AnswersAsBeforeTheAdd ==
    \A request \in Requests :
        GetEvents(request.cookie, request.days, syncNow, request.fault, appointments,
                  ignored_base_ids, ignored_event_ids).body
        = GetEvents(request.cookie, request.days, syncNow, request.fault, appointments,
                    ignoreTrail[1].ignored_base_ids, ignoreTrail[1].ignored_event_ids).body

\* The id of the trail was in its list before it was added
IgnoredBeforeTheAdd ==
    IF ignoreTrail[1].table = "ignored_base_ids"
    THEN ignoreTrail[1].id \in BaseIdKeys(ignoreTrail[1].ignored_base_ids)
    ELSE ignoreTrail[1].id \in EventIdKeys(ignoreTrail[1].ignored_event_ids)

=============================================================================
